---- MODULE Spec2Model ----
(***************************************************************************)
(* Pairing & relay broker of handsfree-claw (server/src/index.ts).         *)
(*                                                                         *)
(* The model covers the WebSocket broker of the current server: the        *)
(* 'connection' handler (admission, slot install, lifecycle                *)
(* notifications), the per-socket 'message' and 'close' handlers, and the  *)
(* part of the credential store admission reads (sessions, pairings).      *)
(* Node runs every handler to completion, so each handler is one action.   *)
(***************************************************************************)
EXTENDS Integers, Sequences, FiniteSets, TLC

\* ------------------------------------------------------------------ bounds
MaxSockets == 3      \* WebSocket connections accepted during a run

\* ---------------------------------------------------------------- universe
Sockets == 1..MaxSockets
Undefined == 0                       \* an empty slot (appSocket?: WebSocket)
Users == {"u1", "u2"}                \* users.id
Tokens == {"T1", "T2"}               \* gateway tokens a client may present
RegisteredTokens == {"T1"}           \* the tokens gateways register; T2 is never registered
SessionTokens == {"sess_1", "sess_2"}
Missing == ""                        \* searchParams.get(..) gave null or ''
ClientTypes == {"app", "gateway", "admin"}   \* values of ?type=; "admin" stands
                                             \* for any value other than the two roles

\* ------------------------------------------------------------ wire texts
\* A text frame.  wf: it is syntactically valid JSON; ws: it holds
\* insignificant whitespace; type / clientType / token: string members;
\* num: the literal of a numeric member ("" when there is none).
Text(wf, ws, type, ct, tok, num) ==
  [wf |-> wf, ws |-> ws, type |-> type, clientType |-> ct, token |-> tok, num |-> num]

SyntaxError == [error |-> "SyntaxError"]

\* JSON.parse on a number literal yields an IEEE-754 double; the double is
\* written here by the literal JSON.stringify prints for it.
ParseNumber(lit) ==
  CASE lit = "" -> ""
    [] lit = "1" -> "1"
    [] lit = "1.0" -> "1"
    [] lit = "9007199254740992" -> "9007199254740992"
    [] lit = "9007199254740993" -> "9007199254740992"

\* JSON.parse(data.toString()): throws on malformed input, otherwise the value
\* (whitespace is not part of the value).
JSONparse(text) ==
  IF ~text.wf THEN SyntaxError
  ELSE [type |-> text.type, clientType |-> text.clientType, token |-> text.token,
        num |-> ParseNumber(text.num)]

\* JSON.stringify(value): the compact serialisation.
JSONstringify(value) ==
  Text(TRUE, FALSE, value.type, value.clientType, value.token, value.num)

\* The broker's own notifications: JSON.stringify({ type: .. }).
Notice(type) == JSONstringify([type |-> type, clientType |-> "", token |-> "", num |-> ""])
Connected(ct, tok) ==
  JSONstringify([type |-> "connected", clientType |-> ct, token |-> tok, num |-> ""])

\* Frames a client may send.
ClientData ==
  { Text(TRUE, FALSE, "message", "", "", "1"),                  \* {"type":"message","n":1}
    Text(TRUE, TRUE, "message", "", "", "1"),                   \* { "type": "message", "n": 1 }
    Text(TRUE, FALSE, "message", "", "", "9007199254740993"),   \* {"type":"message","n":9007199254740993}
    Text(FALSE, FALSE, "message", "", "", "") }                 \* {"type":"message"   (cut short)

\* ------------------------------------------------------------------- state
VARIABLES
  now,              \* new Date(): the wall clock
  sessions,         \* table sessions: rows [token, user_id, expires_at]
  pairings,         \* table pairings: rows [gateway_token, user_id]
  liveConnections,  \* Map<string, LiveConnection>: token -> [appSocket, gatewaySocket]
  sockets,          \* per WebSocket: readyState and what its handlers closed over
  ev,               \* the event the broker handled last
  sent,             \* what that handler sent, in order: <<to, text>>
  heap,             \* PostgreSQL variant: the LiveConnection objects, by reference
  frames,           \* PostgreSQL variant: each async 'connection' handler across its awaits
  verification_codes, \* table verification_codes: rows [id, email, code, expires_at, used, created_at]
  users,            \* table users: rows [id, email]
  minted,           \* how many session tokens nanoid has produced
  req,              \* the HTTP request handled last
  res,              \* ... and its response
  pairing_seq,      \* sqlite_sequence of pairings: the id given last (AUTOINCREMENT)
  calls,             \* PostgreSQL variant: each async verify handler across its awaits
  client            \* the app: its React state, wsRef and the WebSocket objects it made

pgvars == <<heap, frames>>
authvars == <<verification_codes, users, minted, req, res, pairing_seq, calls, client>>
vars == <<now, sessions, pairings, liveConnections, sockets, ev, sent, pgvars, client, authvars>>

NoSocket == [readyState |-> "CONNECTING", handlers |-> FALSE, token |-> Missing, clientType |-> Missing]

NoEvent == [kind |-> "none", ws |-> Undefined, code |-> 0, token |-> Missing,
            clientType |-> Missing, session |-> Missing, data |-> Notice("")]

\* The frame of a 'connection' handler that has not been called.
NoFrame == [pc |-> "idle", token |-> Missing, clientType |-> Missing,
            sessionToken |-> Missing, user |-> "null", connection |-> Undefined]

NoRequest == [route |-> "none", email |-> Missing, code |-> Missing,
              bearer |-> Missing, gateway_token |-> Missing, id |-> 0]

\* The verify requests in flight at once, and the frame of one not yet made.
MaxCalls == 2
Calls == 1..MaxCalls
NoCall == [pc |-> "idle", email |-> Missing, code |-> Missing, verification |-> 0,
           response |-> [status |-> 0, error |-> Missing, token |-> Missing]]

\* The app before anyone signs in: useState(..) and useRef(null) of App().
MaxHandles == 3
Handles == 1..MaxHandles
NoHandle == [readyState |-> "NONE", gatewayToken |-> Missing, screen |-> Missing,
             selectedPairing |-> Missing, timer |-> "none"]
NoClient == [screen |-> "login", selectedPairing |-> Missing, wsRef |-> 0,
             isConnected |-> FALSE, gatewayConnected |-> FALSE,
             handles |-> [h \in Handles |-> NoHandle],
             last |-> [kind |-> "none", ws |-> 0]]

NoResponse == [status |-> 0, error |-> Missing, token |-> Missing]

\* The variables of the other server revisions, as the module's load leaves them.
OthersIdle ==
  /\ heap = << >>
  /\ frames = [s \in Sockets |-> NoFrame]
  /\ verification_codes = {}
  /\ users = {}
  /\ minted = 0
  /\ req = NoRequest
  /\ res = NoResponse
  /\ pairing_seq = 0
  /\ calls = [c \in Calls |-> NoCall]
  /\ client = NoClient

\* interface LiveConnection { gatewayToken; appSocket?; gatewaySocket? }
NewConnection == [appSocket |-> Undefined, gatewaySocket |-> Undefined]

\* ------------------------------------------------------- credential store
\* getUserFromSession(token): the user, or null.
NoUser == "null"
SessionRow(token) == CHOOSE s \in sessions : s.token = token
getUserFromSession(token) ==
  IF ~\E s \in sessions : s.token = token THEN NoUser
  ELSE IF SessionRow(token).expires_at < now THEN NoUser
  ELSE SessionRow(token).user_id

\* ... and its side effect: DELETE FROM sessions WHERE token = ? on an expired row.
SessionsAfterGet(token) ==
  IF \E s \in sessions : s.token = token /\ s.expires_at < now
  THEN {s \in sessions : s.token # token}
  ELSE sessions

\* SELECT id FROM pairings WHERE gateway_token = ? AND user_id = ?
PairingOfUser(token, user) ==
  \E p \in pairings : p.gateway_token = token /\ p.user_id = user

\* SELECT id FROM pairings WHERE gateway_token = ?
PairingRegistered(token) == \E p \in pairings : p.gateway_token = token

\* ----------------------------------------------------------------- broker
IsOpen(s) == s # Undefined /\ sockets[s].readyState = "OPEN"

\* The admission checks with the pairing looked up by its token alone.
AdmissionCodeAnyOwner(token, clientType, sessionToken) ==
  IF token = Missing \/ clientType = Missing THEN 4000
  ELSE IF clientType = "app" /\ sessionToken = Missing THEN 4002
  ELSE IF clientType = "app" /\ getUserFromSession(sessionToken) = NoUser THEN 4003
  ELSE IF clientType = "app" /\ ~PairingRegistered(token) THEN 4004
  ELSE IF clientType = "gateway" /\ ~PairingRegistered(token) THEN 4005
  ELSE 0

\* The admission checks without the gateway's pairing lookup.
AdmissionCodeAnyGateway(token, clientType, sessionToken) ==
  IF token = Missing \/ clientType = Missing THEN 4000
  ELSE IF clientType = "app" /\ sessionToken = Missing THEN 4002
  ELSE IF clientType = "app" /\ getUserFromSession(sessionToken) = NoUser THEN 4003
  ELSE IF clientType = "app" /\ ~PairingOfUser(token, getUserFromSession(sessionToken)) THEN 4004
  ELSE 0

\* The admission checks with the session check ahead of the parameter check.
AdmissionCodeSessionFirst(token, clientType, sessionToken) ==
  IF clientType = "app" /\ sessionToken = Missing THEN 4002
  ELSE IF token = Missing \/ clientType = Missing THEN 4000
  ELSE IF clientType = "app" /\ getUserFromSession(sessionToken) = NoUser THEN 4003
  ELSE IF clientType = "app" /\ ~PairingOfUser(token, getUserFromSession(sessionToken)) THEN 4004
  ELSE IF clientType = "gateway" /\ ~PairingRegistered(token) THEN 4005
  ELSE 0

\* The close code of the admission checks of wss.on('connection'); 0: admitted.
AdmissionCode(token, clientType, sessionToken) ==
  IF token = Missing \/ clientType = Missing THEN 4000
  ELSE IF clientType = "app" /\ sessionToken = Missing THEN 4002
  ELSE IF clientType = "app" /\ getUserFromSession(sessionToken) = NoUser THEN 4003
  ELSE IF clientType = "app" /\ ~PairingOfUser(token, getUserFromSession(sessionToken)) THEN 4004
  ELSE IF clientType = "gateway" /\ ~PairingRegistered(token) THEN 4005
  ELSE 0

\* Whether admission got as far as calling getUserFromSession.
ReadsSession(token, clientType, sessionToken) ==
  token # Missing /\ clientType = "app" /\ sessionToken # Missing

\* liveConnections.get(token), creating the entry when there is none.
Entry(token) ==
  IF token \in DOMAIN liveConnections THEN liveConnections[token] ELSE NewConnection

\* The slot install with the bug of keeping the first occupant of a slot.
InstalledKeepingFirst(ws, clientType, connection) ==
  IF clientType = "app" /\ connection.appSocket = Undefined
  THEN [connection EXCEPT !.appSocket = ws]
  ELSE IF clientType = "gateway" /\ connection.gatewaySocket = Undefined
  THEN [connection EXCEPT !.gatewaySocket = ws]
  ELSE connection

\* The slot install and the peer notifications.
Installed(ws, clientType, connection) ==
  IF clientType = "app" THEN [connection EXCEPT !.appSocket = ws]
  ELSE IF clientType = "gateway" THEN [connection EXCEPT !.gatewaySocket = ws]
  ELSE connection

PeerNotices(ws, clientType, connection) ==
  IF clientType = "app" /\ IsOpen(connection.gatewaySocket)
  THEN << <<connection.gatewaySocket, Notice("app_connected")>>,
          <<ws, Notice("gateway_connected")>> >>
  ELSE IF clientType = "gateway" /\ IsOpen(connection.appSocket)
  THEN << <<connection.appSocket, Notice("gateway_connected")>>,
          <<ws, Notice("app_connected")>> >>
  ELSE << >>

\* The table with the entry looked up or created ahead of the admission checks.
TableWithEarlyEntry(ws, token, clientType, code) ==
  IF token = Missing THEN liveConnections
  ELSE [t \in DOMAIN liveConnections \cup {token} |->
          IF t = token
          THEN (IF code # 0 THEN Entry(token) ELSE Installed(ws, clientType, Entry(token)))
          ELSE liveConnections[t]]

\* liveConnections after the 'connection' handler: untouched by a rejected
\* attempt (every ws.close(..) returns before liveConnections.get), otherwise
\* the entry is looked up or created and the slot of the role is written.
TableAfterConnection(ws, token, clientType, code) ==
  IF code # 0 THEN liveConnections
  ELSE [t \in DOMAIN liveConnections \cup {token} |->
          IF t = token THEN Installed(ws, clientType, Entry(token))
          ELSE liveConnections[t]]

\* The sends of the 'connection' handler with the acknowledgment sent first.
SentWithEarlyAck(ws, token, clientType, code) ==
  IF code # 0 THEN << >>
  ELSE << <<ws, Connected(clientType, token)>> >>
         \o PeerNotices(ws, clientType, Entry(token))

\* What the 'connection' handler sends: nothing to a rejected attempt, otherwise
\* the peer notifications and then the 'connected' acknowledgment.
SentAfterConnection(ws, token, clientType, code) ==
  IF code # 0 THEN << >>
  ELSE PeerNotices(ws, clientType, Entry(token))
         \o << <<ws, Connected(clientType, token)>> >>

\* The connections are numbered in the order the server accepts them.
NextSocket == CHOOSE s \in Sockets :
  /\ sockets[s].readyState = "CONNECTING"
  /\ \A r \in Sockets : r < s => sockets[r].readyState # "CONNECTING"

\* wss.on('connection', (ws, req) => ...)
OnConnection(ws, token, clientType, sessionToken) ==
  LET code == AdmissionCode(token, clientType, sessionToken) IN
  /\ sockets[ws].readyState = "CONNECTING"
  /\ ws = NextSocket
  /\ ev' = [NoEvent EXCEPT !.kind = "connection", !.ws = ws, !.code = code,
              !.token = token, !.clientType = clientType, !.session = sessionToken]
  /\ sessions' = IF ReadsSession(token, clientType, sessionToken)
                 THEN SessionsAfterGet(sessionToken) ELSE sessions
  /\ sockets' = [sockets EXCEPT ![ws] =
                    IF code # 0
                    THEN \* ws.close(code, reason); return
                         [NoSocket EXCEPT !.readyState = "CLOSING"]
                    ELSE \* ws.on('message', ..), ws.on('close', ..) are registered
                         [readyState |-> "OPEN", handlers |-> TRUE,
                          token |-> token, clientType |-> clientType]]
  /\ liveConnections' = TableAfterConnection(ws, token, clientType, code)
  /\ sent' = SentAfterConnection(ws, token, clientType, code)
  /\ UNCHANGED <<now, pairings>>
  /\ UNCHANGED <<pgvars, authvars>>

\* The relay target looked up in the whole table: the peer of another pairing
\* serves when the sender's own entry has none.
TargetOfAnyEntry(ws) ==
  LET peers == {IF sockets[ws].clientType = "app"
                THEN liveConnections[t].gatewaySocket
                ELSE liveConnections[t].appSocket : t \in DOMAIN liveConnections}
      own == IF sockets[ws].clientType = "app"
             THEN liveConnections[sockets[ws].token].gatewaySocket
             ELSE liveConnections[sockets[ws].token].appSocket
  IN IF own # Undefined THEN own
     ELSE IF peers \ {Undefined} = {} THEN Undefined
     ELSE CHOOSE p \in peers \ {Undefined} : TRUE

\* ws.on('message', (data) => ...)
Target(ws) ==
  IF sockets[ws].clientType = "app"
  THEN liveConnections[sockets[ws].token].gatewaySocket
  ELSE liveConnections[sockets[ws].token].appSocket

\* The relay of the first server revision, which answers the sender when the
\* peer is away: { type: 'error', error: 'Peer not connected' }.
PeerNotConnected == Notice("error")
RelayedWithEcho(ws, data) ==
  IF JSONparse(data) = SyntaxError THEN << >>
  ELSE IF IsOpen(Target(ws)) THEN << <<Target(ws), JSONstringify(JSONparse(data))>> >>
  ELSE << <<ws, PeerNotConnected>> >>

\* The relay without the parse: whatever arrives is passed on.
RelayedUnparsed(ws, data) ==
  IF IsOpen(Target(ws)) THEN << <<Target(ws), data>> >> ELSE << >>

\* The relay sending the message twice.
RelayedTwice(ws, data) ==
  IF JSONparse(data) = SyntaxError THEN << >>
  ELSE IF IsOpen(Target(ws))
       THEN << <<Target(ws), JSONstringify(JSONparse(data))>>,
               <<Target(ws), JSONstringify(JSONparse(data))>> >>
  ELSE << >>

\* The relay checking the registry again for each message.
RelayedIfPaired(ws, data) ==
  IF JSONparse(data) = SyntaxError THEN << >>
  ELSE IF IsOpen(Target(ws)) /\ PairingRegistered(sockets[ws].token)
  THEN << <<Target(ws), JSONstringify(JSONparse(data))>> >>
  ELSE << >>

Relayed(ws, data) ==
  IF JSONparse(data) = SyntaxError THEN << >>
  ELSE IF IsOpen(Target(ws)) THEN << <<Target(ws), JSONstringify(JSONparse(data))>> >>
  ELSE << >>

OnMessage(ws, data) ==
  /\ sockets[ws].readyState \in {"OPEN", "CLOSING"}
  /\ sockets[ws].readyState = "CLOSING" => ~sockets[ws].handlers
  /\ ev' = [NoEvent EXCEPT !.kind = "message", !.ws = ws, !.data = data]
  /\ sent' = IF sockets[ws].handlers THEN Relayed(ws, data) ELSE << >>
  /\ UNCHANGED <<now, sessions, pairings, liveConnections, sockets>>
  /\ UNCHANGED <<pgvars, authvars>>

\* The peer goes away: ws leaves OPEN before its 'close' event is dispatched.
StartClose(ws) ==
  /\ sockets[ws].readyState = "OPEN"
  /\ sockets' = [sockets EXCEPT ![ws].readyState = "CLOSING"]
  /\ ev' = [NoEvent EXCEPT !.kind = "closing", !.ws = ws]
  /\ sent' = << >>
  /\ UNCHANGED <<now, sessions, pairings, liveConnections>>
  /\ UNCHANGED <<pgvars, authvars>>

\* The 'close' handler clearing the slot of the other role.
ClearedOther(ws) ==
  IF sockets[ws].clientType = "app"
  THEN [liveConnections[sockets[ws].token] EXCEPT !.gatewaySocket = Undefined]
  ELSE [liveConnections[sockets[ws].token] EXCEPT !.appSocket = Undefined]

\* ws.on('close', () => ...)
Cleared(ws) ==
  IF sockets[ws].clientType = "app"
  THEN [liveConnections[sockets[ws].token] EXCEPT !.appSocket = Undefined]
  ELSE [liveConnections[sockets[ws].token] EXCEPT !.gatewaySocket = Undefined]

CloseNotices(ws) ==
  LET connection == liveConnections[sockets[ws].token] IN
  IF sockets[ws].clientType = "app"
  THEN IF connection.gatewaySocket # Undefined
       THEN << <<connection.gatewaySocket, Notice("app_disconnected")>> >> ELSE << >>
  ELSE IF connection.appSocket # Undefined
       THEN << <<connection.appSocket, Notice("gateway_disconnected")>> >> ELSE << >>

\* The table after a 'close' handler that drops an entry left with two empty slots.
TableAfterCloseCollecting(ws) ==
  IF Cleared(ws) = NewConnection
  THEN [t \in DOMAIN liveConnections \ {sockets[ws].token} |-> liveConnections[t]]
  ELSE [liveConnections EXCEPT ![sockets[ws].token] = Cleared(ws)]

\* liveConnections after the 'close' handler: the entry stays, one slot is cleared.
TableAfterClose(ws) ==
  [liveConnections EXCEPT ![sockets[ws].token] = Cleared(ws)]

OnClose(ws) ==
  /\ sockets[ws].readyState = "CLOSING"
  /\ sockets[ws].handlers
  /\ sockets' = [sockets EXCEPT ![ws].readyState = "CLOSED"]
  /\ liveConnections' = TableAfterClose(ws)
  /\ ev' = [NoEvent EXCEPT !.kind = "close", !.ws = ws]
  /\ sent' = CloseNotices(ws)
  /\ UNCHANGED <<now, sessions, pairings>>
  /\ UNCHANGED <<pgvars, authvars>>

\* ------------------------------------------------------------ environment
\* POST /api/pairings/register: insert the row or re-point its owner.
Register(user, gateway_token) ==
  /\ pairings' = {p \in pairings : p.gateway_token # gateway_token}
                   \cup {[gateway_token |-> gateway_token, user_id |-> user]}
  /\ pairings' # pairings
  /\ ev' = NoEvent
  /\ sent' = << >>
  /\ UNCHANGED <<now, sessions, liveConnections, sockets>>
  /\ UNCHANGED <<pgvars, authvars>>

\* DELETE /api/pairings/:id of the row's owner.
DeletePairing(user, gateway_token) ==
  /\ [gateway_token |-> gateway_token, user_id |-> user] \in pairings
  /\ pairings' = pairings \ {[gateway_token |-> gateway_token, user_id |-> user]}
  /\ ev' = NoEvent
  /\ sent' = << >>
  /\ UNCHANGED <<now, sessions, liveConnections, sockets>>
  /\ UNCHANGED <<pgvars, authvars>>

\* ------------------------------------------------------------------- spec
Init ==
  /\ now = 1
  /\ sessions = {[token |-> "sess_1", user_id |-> "u1", expires_at |-> 2],
                 [token |-> "sess_2", user_id |-> "u2", expires_at |-> 0]}
  /\ pairings = {[gateway_token |-> "T1", user_id |-> "u1"]}
  /\ liveConnections = << >>
  /\ sockets = [s \in Sockets |-> NoSocket]
  /\ ev = NoEvent
  /\ sent = << >>
  /\ OthersIdle

Next ==
  \/ \E ws \in Sockets, token \in Tokens \cup {Missing},
        clientType \in ClientTypes \cup {Missing},
        sessionToken \in SessionTokens \cup {Missing} :
       OnConnection(ws, token, clientType, sessionToken)
  \/ \E ws \in Sockets, data \in ClientData : OnMessage(ws, data)
  \/ \E ws \in Sockets : StartClose(ws)
  \/ \E ws \in Sockets : OnClose(ws)
  \/ \E user \in Users, gateway_token \in RegisteredTokens : Register(user, gateway_token)
  \/ \E user \in Users, gateway_token \in Tokens : DeletePairing(user, gateway_token)

Spec == Init /\ [][Next]_vars

TypeOK ==
  /\ DOMAIN liveConnections \subseteq Tokens
  /\ \A t \in DOMAIN liveConnections :
       /\ liveConnections[t].appSocket \in Sockets \cup {Undefined}
       /\ liveConnections[t].gatewaySocket \in Sockets \cup {Undefined}

\* ------------------------------------------------------------- properties
Roles == {"app", "gateway"}

\* ws passed admission: the 'connection' handler registered its handlers.
Admitted(ws) == sockets[ws].handlers

\* The slot of role `role` in the entry of token t (Undefined when there is no entry).
Slot(t, role) ==
  IF t \notin DOMAIN liveConnections THEN Undefined
  ELSE IF role = "app" THEN liveConnections[t].appSocket
  ELSE liveConnections[t].gatewaySocket

Opposite(role) == IF role = "app" THEN "gateway" ELSE "app"

\* A later socket was admitted for the same token and the same role as ws.
Superseded(ws) ==
  /\ Admitted(ws)
  /\ sockets[ws].clientType \in Roles
  /\ \E later \in Sockets :
       /\ later > ws
       /\ Admitted(later)
       /\ sockets[later].token = sockets[ws].token
       /\ sockets[later].clientType = sockets[ws].clientType

\* The sockets the last handler sent something to.
Receivers == {sent[i][1] : i \in DOMAIN sent}

\* C1 (as claimed): a message that a superseded socket sends after the
\* supersession is forwarded to nobody.
C1_SupersededIsNoSource ==
  (ev.kind = "message" /\ Superseded(ev.ws)) => sent = << >>

\* C2 (as claimed): the 'close' event of a socket that is no longer the one
\* installed in the slot of its role leaves the table as it is.
C2_CloseClearsOwnSlotOnly ==
  [][\A ws \in Sockets :
       ( /\ sockets[ws].readyState = "CLOSING"
         /\ sockets'[ws].readyState = "CLOSED"
         /\ sockets[ws].clientType \in Roles
         /\ Slot(sockets[ws].token, sockets[ws].clientType) # ws )
       => liveConnections' = liveConnections]_vars

\* C3: an app message is forwarded only to the gateway socket admitted last for
\* the token, never to an earlier (superseded) one, and a slot holds nothing or
\* one socket that was admitted for that token in that role.
C3_SecondGatewayIsTheTarget ==
  /\ \A t \in DOMAIN liveConnections : \A role \in Roles :
       Slot(t, role) # Undefined =>
         /\ Slot(t, role) \in Sockets
         /\ Admitted(Slot(t, role))
         /\ sockets[Slot(t, role)].token = t
         /\ sockets[Slot(t, role)].clientType = role
  /\ (ev.kind = "message" /\ Admitted(ev.ws) /\ sockets[ev.ws].clientType = "app") =>
       \A to \in Receivers :
         /\ Admitted(to)
         /\ sockets[to].clientType = "gateway"
         /\ sockets[to].token = sockets[ev.ws].token
         /\ ~Superseded(to)

C3_Witness ==
  /\ ev.kind = "message"
  /\ Admitted(ev.ws)
  /\ sockets[ev.ws].clientType = "app"
  /\ \E first, second \in Sockets :
       /\ first < second
       /\ Superseded(first)
       /\ sockets[first].clientType = "gateway"
       /\ sockets[first].token = sockets[ev.ws].token
       /\ IsOpen(first)
       /\ Receivers = {second}

\* C4 (as claimed): only a socket that declared the role app or gateway has its
\* messages forwarded.
C4_OnlyRolesRelay ==
  (ev.kind = "message" /\ sent # << >>) => sockets[ev.ws].clientType \in Roles

\* The 'connection' handler has just run for ws.
ConnectionStep(ws) ==
  sockets[ws].readyState = "CONNECTING" /\ sockets'[ws].readyState # "CONNECTING"

InNoSlot(ws, table) ==
  \A t \in DOMAIN table : table[t].appSocket # ws /\ table[t].gatewaySocket # ws

\* The session rows that make sessionToken a live session now.
LiveSessions(sessionToken) ==
  {r \in sessions : r.token = sessionToken /\ r.expires_at >= now}

\* C5: an app attempt is installed in the app slot exactly when it carried a
\* session token, the token is a live session and the pairing of the gateway
\* token belongs to the session's account, all at admission time; otherwise it
\* is closed with 4002, 4003 or 4004, checked in that order, and not installed.
C5_AppAdmission ==
  [][\A ws \in Sockets :
       (ConnectionStep(ws) /\ ev'.clientType = "app" /\ ev'.token # Missing) =>
         LET owned == \E r \in LiveSessions(ev'.session) :
                        [gateway_token |-> ev'.token, user_id |-> r.user_id] \in pairings
             expected == IF ev'.session = Missing THEN 4002
                         ELSE IF LiveSessions(ev'.session) = {} THEN 4003
                         ELSE IF ~owned THEN 4004
                         ELSE 0
         IN /\ ev'.code = expected
            /\ expected = 0 => liveConnections'[ev'.token].appSocket = ws
            /\ expected # 0 => InNoSlot(ws, liveConnections')]_vars

C5_Witness ==
  /\ ev.kind = "connection"
  /\ ev.clientType = "app"
  /\ ev.code = 0
  /\ Slot(ev.token, "app") = ev.ws
  /\ ev.session \in SessionTokens

\* C6: a gateway attempt is installed in the gateway slot exactly when the
\* pairing registry holds its token at admission time; otherwise it is closed
\* with 4005 and not installed.
C6_GatewayAdmission ==
  [][\A ws \in Sockets :
       (ConnectionStep(ws) /\ ev'.clientType = "gateway" /\ ev'.token # Missing) =>
         LET registered == \E p \in pairings : p.gateway_token = ev'.token IN
         /\ ev'.code = (IF registered THEN 0 ELSE 4005)
         /\ registered => liveConnections'[ev'.token].gatewaySocket = ws
         /\ ~registered => InNoSlot(ws, liveConnections')]_vars

C6_Witness ==
  /\ ev.kind = "connection"
  /\ ev.clientType = "gateway"
  /\ ev.code = 0
  /\ Slot(ev.token, "gateway") = ev.ws

\* C7: an attempt without the token or the role is closed with 4000 and nothing
\* else happens: the table keeps its entries and the store is not read.
C7_MissingParameters ==
  [][\A ws \in Sockets :
       (ConnectionStep(ws) /\ (ev'.token = Missing \/ ev'.clientType = Missing)) =>
         /\ ev'.code = 4000
         /\ liveConnections' = liveConnections
         /\ sessions' = sessions
         /\ sent' = << >>]_vars

C7_Witness ==
  /\ ev.kind = "connection"
  /\ ev.code = 4000
  /\ ev.token = Missing
  /\ ev.clientType = "app"
  /\ \E r \in sessions : r.token = ev.session /\ r.expires_at < now
  /\ DOMAIN liveConnections # {}

\* C8: a rejected attempt leaves the table as it was, sends nothing to any
\* socket, and a message that arrives on the rejected socket goes nowhere.
C8_RejectionHasNoEffect ==
  [][/\ \A ws \in Sockets :
          (ConnectionStep(ws) /\ ev'.code # 0) =>
            /\ ev'.code \in {4000, 4002, 4003, 4004, 4005}
            /\ liveConnections' = liveConnections
            /\ sent' = << >>
     /\ (ev'.kind = "message" /\ ~Admitted(ev'.ws)) =>
          (sent' = << >> /\ liveConnections' = liveConnections)]_vars

C8_Witness ==
  /\ ev.kind = "connection"
  /\ ev.code \in {4003, 4004}
  /\ IsOpen(Slot(ev.token, "gateway"))
  /\ Slot(ev.token, "app") # Undefined

\* C9 (as claimed): a well-formed message of the socket installed in the slot
\* of its role, with the opposite slot's socket open, is sent once, to that
\* socket only, as the text that was received.
C9_ForwardedVerbatimOnce ==
  ( /\ ev.kind = "message"
    /\ ev.data.wf
    /\ Admitted(ev.ws)
    /\ sockets[ev.ws].clientType \in Roles
    /\ Slot(sockets[ev.ws].token, sockets[ev.ws].clientType) = ev.ws
    /\ IsOpen(Slot(sockets[ev.ws].token, Opposite(sockets[ev.ws].clientType))) )
  => sent = << <<Slot(sockets[ev.ws].token, Opposite(sockets[ev.ws].clientType)), ev.data>> >>

\* A well-formed message of an admitted app or gateway socket found the
\* opposite slot empty or its socket not open.
PeerAway ==
  /\ ev.kind = "message"
  /\ ev.data.wf
  /\ Admitted(ev.ws)
  /\ sockets[ev.ws].clientType \in Roles
  /\ ~IsOpen(Slot(sockets[ev.ws].token, Opposite(sockets[ev.ws].clientType)))

\* C10 (as claimed): the sender is told that the peer is not connected.
C10_PeerNotConnectedEcho ==
  PeerAway => sent = << <<ev.ws, PeerNotConnected>> >>

\* C10 (amended): nothing is forwarded and nothing is sent to the sender.
C10_SilentDrop ==
  PeerAway => sent = << >>

C10_Witness ==
  /\ PeerAway
  /\ Slot(sockets[ev.ws].token, Opposite(sockets[ev.ws].clientType)) # Undefined

\* ws is the socket installed in the slot of its own role.
InstalledInOwnSlot(ws) ==
  /\ Admitted(ws)
  /\ sockets[ws].clientType \in Roles
  /\ Slot(sockets[ws].token, sockets[ws].clientType) = ws

OppositeSlot(ws) == Slot(sockets[ws].token, Opposite(sockets[ws].clientType))

\* C11: a message that does not parse is dropped: nothing is sent, the table
\* and the sockets stay as they are, and a well-formed message that the same
\* installed socket sends next goes once to the open socket of the opposite slot.
C11_MalformedIsDropped ==
  [][/\ (ev'.kind = "message" /\ ~ev'.data.wf) =>
          /\ sent' = << >>
          /\ liveConnections' = liveConnections
          /\ sockets' = sockets
     /\ ( /\ ev.kind = "message" /\ ~ev.data.wf
          /\ ev'.kind = "message" /\ ev'.ws = ev.ws /\ ev'.data.wf
          /\ InstalledInOwnSlot(ev.ws)
          /\ IsOpen(OppositeSlot(ev.ws)) ) =>
          /\ Len(sent') = 1
          /\ sent'[1][1] = OppositeSlot(ev.ws)
          /\ JSONparse(sent'[1][2]) = JSONparse(ev'.data)]_vars

C11_Witness ==
  /\ ev.kind = "message"
  /\ ~ev.data.wf
  /\ InstalledInOwnSlot(ev.ws)
  /\ IsOpen(ev.ws)
  /\ IsOpen(OppositeSlot(ev.ws))

\* C13: an admitted socket is sent one 'connected' acknowledgment with its own
\* role and token, as the last thing its admission sends; a rejected attempt
\* and the other handlers send none.
C13_AckIsLast ==
  /\ (ev.kind = "connection" /\ ev.code = 0) =>
       /\ sent # << >>
       /\ sent[Len(sent)] = <<ev.ws, Connected(ev.clientType, ev.token)>>
       /\ Cardinality({i \in DOMAIN sent : sent[i][2].type = "connected"}) = 1
  /\ (ev.kind # "connection" \/ ev.code # 0) =>
       \A i \in DOMAIN sent : sent[i][2].type # "connected"

C13_Witness ==
  /\ ev.kind = "connection"
  /\ ev.code = 0
  /\ Len(sent) = 3
  /\ sent[2] = <<ev.ws, Notice("gateway_connected")>>

\* The 'close' handler has just run for ws.
CloseStep(ws) ==
  sockets[ws].readyState = "CLOSING" /\ sockets'[ws].readyState = "CLOSED"

Disconnected(role) == IF role = "app" THEN "app_disconnected" ELSE "gateway_disconnected"

\* C14: when the socket installed in the slot of its role closes, that slot is
\* emptied, the opposite slot keeps its socket, and that socket (if any) is
\* sent one notification naming the role that left; otherwise nothing is sent.
C14_CloseNotifiesPeer ==
  [][\A ws \in Sockets :
       (CloseStep(ws) /\ InstalledInOwnSlot(ws)) =>
         LET t == sockets[ws].token
             role == sockets[ws].clientType
             peer == OppositeSlot(ws)
         IN /\ liveConnections'[t] =
                 (IF role = "app"
                  THEN [appSocket |-> Undefined, gatewaySocket |-> peer]
                  ELSE [appSocket |-> peer, gatewaySocket |-> Undefined])
            /\ sent' = (IF peer # Undefined
                        THEN << <<peer, Notice(Disconnected(role))>> >>
                        ELSE << >>)]_vars

C14_Witness ==
  /\ ev.kind = "close"
  /\ sockets[ev.ws].clientType = "gateway"
  /\ \A other \in Sockets \ {ev.ws} :
       Admitted(other) => sockets[other].clientType = "app"
  /\ Slot(sockets[ev.ws].token, "gateway") = Undefined
  /\ IsOpen(Slot(sockets[ev.ws].token, "app"))
  /\ sent = << <<Slot(sockets[ev.ws].token, "app"), Notice("gateway_disconnected")>> >>

\* C15 (as claimed): once an app socket was replaced by a newer app socket for
\* the token and the gateway socket stayed connected, a well-formed message of
\* the gateway goes to the newer app socket, whatever the order of the old
\* socket's close and the newer socket's admission.
C15_ReconnectedAppIsReached ==
  \A old, new \in Sockets :
    ( /\ ev.kind = "message"
      /\ ev.data.wf
      /\ InstalledInOwnSlot(ev.ws)
      /\ sockets[ev.ws].clientType = "gateway"
      /\ IsOpen(ev.ws)
      /\ old < new
      /\ Admitted(old) /\ Admitted(new)
      /\ sockets[old].clientType = "app" /\ sockets[new].clientType = "app"
      /\ sockets[old].token = sockets[ev.ws].token
      /\ sockets[new].token = sockets[ev.ws].token
      /\ ~Superseded(new)
      /\ IsOpen(new) )
    => Receivers = {new}

\* C16: the handler of a message sends at most one text, the one it was just
\* given (nothing is duplicated, nothing kept back from an earlier message),
\* and no other handler sends a client's message.
C16_NoReorderNoDuplicate ==
  /\ ev.kind = "message" =>
       /\ Len(sent) <= 1
       /\ \A i \in DOMAIN sent :
            ev.data.wf /\ JSONparse(sent[i][2]) = JSONparse(ev.data)
  /\ ev.kind # "message" =>
       \A i \in DOMAIN sent : sent[i][2].type # "message"

C16_Witness ==
  /\ ev.kind = "message"
  /\ Len(sent) = 1
  /\ InstalledInOwnSlot(ev.ws)

\* Every app or gateway socket admitted for token t has had its 'close' handled.
AllSidesGone(t) ==
  \A ws \in Sockets :
    (Admitted(ws) /\ sockets[ws].token = t /\ sockets[ws].clientType \in Roles)
      => sockets[ws].readyState = "CLOSED"

\* C17: an entry is never removed; once every side of a token is gone both of
\* its slots are empty; and an admission for a token that has an entry keeps
\* the entry, writes the slot of its role and leaves the other slot alone.
C17_EntryPersists ==
  [][/\ DOMAIN liveConnections \subseteq DOMAIN liveConnections'
     /\ \A t \in DOMAIN liveConnections' :
          AllSidesGone(t)' => liveConnections'[t] = NewConnection
     /\ \A ws \in Sockets :
          (ConnectionStep(ws) /\ ev'.code = 0 /\ ev'.clientType \in Roles) =>
            LET before == IF ev'.token \in DOMAIN liveConnections
                          THEN liveConnections[ev'.token] ELSE NewConnection
            IN /\ DOMAIN liveConnections' = DOMAIN liveConnections \cup {ev'.token}
               /\ liveConnections'[ev'.token] =
                    (IF ev'.clientType = "app"
                     THEN [appSocket |-> ws, gatewaySocket |-> before.gatewaySocket]
                     ELSE [appSocket |-> before.appSocket, gatewaySocket |-> ws])
               /\ \A t \in DOMAIN liveConnections \ {ev'.token} :
                    liveConnections'[t] = liveConnections[t]]_vars

C17_Witness ==
  /\ ev.kind = "connection"
  /\ ev.code = 0
  /\ ev.clientType = "gateway"
  /\ liveConnections[ev.token] = [appSocket |-> Undefined, gatewaySocket |-> ev.ws]
  /\ \E a, g \in Sockets \ {ev.ws} :
       /\ Admitted(a) /\ Admitted(g)
       /\ sockets[a].token = ev.token /\ sockets[g].token = ev.token
       /\ sockets[a].clientType = "app" /\ sockets[g].clientType = "gateway"
       /\ sockets[a].readyState = "CLOSED" /\ sockets[g].readyState = "CLOSED"

\* C18 (as claimed, for the entries that app and gateway sockets made): every
\* key of the table is a registered gateway token or has an occupied slot.
C18_NoLeakedEntries ==
  \A t \in DOMAIN liveConnections :
    (\A ws \in Sockets :
       (Admitted(ws) /\ sockets[ws].token = t) => sockets[ws].clientType \in Roles)
    => \/ \E p \in pairings : p.gateway_token = t
       \/ liveConnections[t].appSocket # Undefined
       \/ liveConnections[t].gatewaySocket # Undefined

\* ------------------------------ first server revision (in-memory pairings)
\* const pairings = new Map<string, Pairing>(): a Pairing object is both the
\* registration of its token and the holder of the two sockets, so this Map is
\* kept in liveConnections; the credential store is not used by this revision.

\* app.post('/api/pairing/create'): a fresh token and its empty Pairing.
LegacyCreate(token) ==
  /\ token \notin DOMAIN liveConnections
  /\ liveConnections' = [t \in DOMAIN liveConnections \cup {token} |->
                           IF t = token THEN NewConnection ELSE liveConnections[t]]
  /\ ev' = NoEvent
  /\ sent' = << >>
  /\ UNCHANGED <<now, sessions, pairings, sockets>>
  /\ UNCHANGED <<pgvars, authvars>>

LegacyAdmissionCode(token, clientType) ==
  IF token = Missing \/ clientType = Missing THEN 4000
  ELSE IF token \notin DOMAIN liveConnections THEN 4001
  ELSE 0

\* Only the socket already in the opposite slot is told of the newcomer.
LegacyPeerNotices(clientType, pairing) ==
  IF clientType = "app" /\ IsOpen(pairing.gatewaySocket)
  THEN << <<pairing.gatewaySocket, Notice("app_connected")>> >>
  ELSE IF clientType = "gateway" /\ IsOpen(pairing.appSocket)
  THEN << <<pairing.appSocket, Notice("gateway_connected")>> >>
  ELSE << >>

\* wss.on('connection', (ws, req) => ...)
LegacyOnConnection(ws, token, clientType) ==
  LET code == LegacyAdmissionCode(token, clientType) IN
  /\ sockets[ws].readyState = "CONNECTING"
  /\ ws = NextSocket
  /\ ev' = [NoEvent EXCEPT !.kind = "connection", !.ws = ws, !.code = code,
              !.token = token, !.clientType = clientType]
  /\ sockets' = [sockets EXCEPT ![ws] =
                    IF code # 0
                    THEN [NoSocket EXCEPT !.readyState = "CLOSING"]
                    ELSE [readyState |-> "OPEN", handlers |-> TRUE,
                          token |-> token, clientType |-> clientType]]
  /\ liveConnections' =
       IF code # 0 THEN liveConnections
       ELSE [liveConnections EXCEPT
               ![token] = Installed(ws, clientType, liveConnections[token])]
  /\ sent' = IF code # 0 THEN << >>
             ELSE LegacyPeerNotices(clientType, liveConnections[token])
                    \o << <<ws, Connected(clientType, token)>> >>
  /\ UNCHANGED <<now, sessions, pairings>>
  /\ UNCHANGED <<pgvars, authvars>>

\* The legacy relay without its answer to the sender.
LegacyRelayedSilently(ws, data) ==
  IF JSONparse(data) = SyntaxError THEN << >>
  ELSE IF IsOpen(Target(ws)) THEN << <<Target(ws), JSONstringify(JSONparse(data))>> >>
  ELSE << >>

\* ws.on('message', (data) => ...): relay, or answer 'Peer not connected'.
LegacyRelayed(ws, data) ==
  IF JSONparse(data) = SyntaxError THEN << >>
  ELSE IF IsOpen(Target(ws)) THEN << <<Target(ws), JSONstringify(JSONparse(data))>> >>
  ELSE << <<ws, PeerNotConnected>> >>

LegacyOnMessage(ws, data) ==
  /\ sockets[ws].readyState \in {"OPEN", "CLOSING"}
  /\ sockets[ws].readyState = "CLOSING" => ~sockets[ws].handlers
  /\ ev' = [NoEvent EXCEPT !.kind = "message", !.ws = ws, !.data = data]
  /\ sent' = IF sockets[ws].handlers THEN LegacyRelayed(ws, data) ELSE << >>
  /\ UNCHANGED <<now, sessions, pairings, liveConnections, sockets>>
  /\ UNCHANGED <<pgvars, authvars>>

\* ws.on('close', () => ...)
LegacyCleared(ws) ==
  IF sockets[ws].clientType = "app"
  THEN [liveConnections[sockets[ws].token] EXCEPT !.appSocket = Undefined]
  ELSE IF sockets[ws].clientType = "gateway"
  THEN [liveConnections[sockets[ws].token] EXCEPT !.gatewaySocket = Undefined]
  ELSE liveConnections[sockets[ws].token]

LegacyCloseNotices(ws) ==
  LET pairing == liveConnections[sockets[ws].token] IN
  IF sockets[ws].clientType = "app" /\ IsOpen(pairing.gatewaySocket)
  THEN << <<pairing.gatewaySocket, Notice("app_disconnected")>> >>
  ELSE IF sockets[ws].clientType = "gateway" /\ IsOpen(pairing.appSocket)
  THEN << <<pairing.appSocket, Notice("gateway_disconnected")>> >>
  ELSE << >>

LegacyOnClose(ws) ==
  /\ sockets[ws].readyState = "CLOSING"
  /\ sockets[ws].handlers
  /\ sockets' = [sockets EXCEPT ![ws].readyState = "CLOSED"]
  /\ liveConnections' = [liveConnections EXCEPT ![sockets[ws].token] = LegacyCleared(ws)]
  /\ ev' = [NoEvent EXCEPT !.kind = "close", !.ws = ws]
  /\ sent' = LegacyCloseNotices(ws)
  /\ UNCHANGED <<now, sessions, pairings>>
  /\ UNCHANGED <<pgvars, authvars>>

InitLegacy ==
  /\ now = 1
  /\ sessions = {}
  /\ pairings = {}
  /\ liveConnections = << >>
  /\ sockets = [s \in Sockets |-> NoSocket]
  /\ ev = NoEvent
  /\ sent = << >>
  /\ OthersIdle

NextLegacy ==
  \/ \E token \in Tokens : LegacyCreate(token)
  \/ \E ws \in Sockets, token \in Tokens \cup {Missing},
        clientType \in ClientTypes \cup {Missing} :
       LegacyOnConnection(ws, token, clientType)
  \/ \E ws \in Sockets, data \in ClientData : LegacyOnMessage(ws, data)
  \/ \E ws \in Sockets : StartClose(ws)
  \/ \E ws \in Sockets : LegacyOnClose(ws)

SpecLegacy == InitLegacy /\ [][NextLegacy]_vars

PeerConnected(role) == IF role = "app" THEN "app_connected" ELSE "gateway_connected"

\* C12 (as claimed): an admission that finds an open socket in the opposite
\* slot sends that socket a notification naming the newcomer's role and sends
\* the newcomer one naming the peer's role; with an empty opposite slot no
\* peer-connected notification is sent.
C12_BothSidesNotified ==
  (ev.kind = "connection" /\ ev.code = 0 /\ ev.clientType \in Roles) =>
    LET peer == OppositeSlot(ev.ws) IN
    /\ IsOpen(peer) =>
         /\ \E i \in DOMAIN sent : sent[i] = <<peer, Notice(PeerConnected(ev.clientType))>>
         /\ \E i \in DOMAIN sent :
              sent[i] = <<ev.ws, Notice(PeerConnected(Opposite(ev.clientType)))>>
    /\ peer = Undefined =>
         \A i \in DOMAIN sent : sent[i][2].type \notin {"app_connected", "gateway_connected"}

\* ------------------------------------ PostgreSQL revision (async handler)
\* wss.on('connection', async (ws, req) => ...): the handler gives up control
\* at each await, so the handlers of other sockets and the environment run in
\* between. liveConnections maps a token to a reference (an index into heap):
\* the closures of ws.on('message') and ws.on('close') keep the reference they
\* were given, frames[ws].connection.

\* ws.close(code, reason): nothing happens to a socket that already left OPEN.
ClosedBy(socket) ==
  IF socket.readyState \in {"CONNECTING", "OPEN"}
  THEN [socket EXCEPT !.readyState = "CLOSING"] ELSE socket

\* A lookup that never finds the entry.
PgLookupNever(token) == Undefined

\* liveConnections.get(token)
PgLookup(token) ==
  IF token \in DOMAIN liveConnections THEN liveConnections[token] ELSE Undefined

\* ws.close(code, ..); return
PgReject(ws, code) ==
  /\ sockets' = [sockets EXCEPT ![ws] = ClosedBy(@)]
  /\ frames' = [frames EXCEPT ![ws] = [NoFrame EXCEPT !.pc = "done"]]
  /\ ev' = [NoEvent EXCEPT !.kind = "connection", !.ws = ws, !.code = code,
              !.token = frames[ws].token, !.clientType = frames[ws].clientType,
              !.session = frames[ws].sessionToken]
  /\ sent' = << >>
  /\ UNCHANGED <<liveConnections, heap>>

\* From liveConnections.get(token) to the 'connected' acknowledgment: one
\* synchronous stretch of the handler.
PgAdmit(ws, token, clientType, sessionToken) ==
  LET found == PgLookup(token)
      ref == IF found = Undefined THEN Len(heap) + 1 ELSE found
      connection == IF found = Undefined THEN NewConnection ELSE heap[found]
  IN /\ liveConnections' =
          IF found = Undefined
          THEN [t \in DOMAIN liveConnections \cup {token} |->
                  IF t = token THEN ref ELSE liveConnections[t]]
          ELSE liveConnections
     /\ heap' = IF found = Undefined
                THEN Append(heap, Installed(ws, clientType, connection))
                ELSE [heap EXCEPT ![ref] = Installed(ws, clientType, connection)]
     /\ sockets' = [sockets EXCEPT ![ws] =
                      [readyState |-> IF @.readyState = "CONNECTING" THEN "OPEN"
                                      ELSE @.readyState,
                       handlers |-> TRUE, token |-> token, clientType |-> clientType]]
     /\ frames' = [frames EXCEPT ![ws] =
                     [NoFrame EXCEPT !.pc = "done", !.connection = ref]]
     /\ sent' = PeerNotices(ws, clientType, connection)
                  \o << <<ws, Connected(clientType, token)>> >>
     /\ ev' = [NoEvent EXCEPT !.kind = "connection", !.ws = ws, !.code = 0,
                 !.token = token, !.clientType = clientType, !.session = sessionToken]

\* await ...: the handler is suspended at position pc.
PgAwait(ws, pc, token, clientType, sessionToken, user) ==
  /\ sockets' = [sockets EXCEPT ![ws].readyState =
                    IF @ = "CONNECTING" THEN "OPEN" ELSE @]
  /\ frames' = [frames EXCEPT ![ws] =
                  [pc |-> pc, token |-> token, clientType |-> clientType,
                   sessionToken |-> sessionToken, user |-> user, connection |-> Undefined]]
  /\ ev' = [NoEvent EXCEPT !.kind = "await", !.ws = ws]
  /\ sent' = << >>
  /\ UNCHANGED <<liveConnections, heap>>

\* The handler up to its first await (or to its end, when it awaits nothing).
PgOnConnection(ws, token, clientType, sessionToken) ==
  /\ sockets[ws].readyState = "CONNECTING"
  /\ ws = NextSocket
  /\ IF token = Missing \/ clientType = Missing
     THEN /\ frames' = [frames EXCEPT ![ws] = [NoFrame EXCEPT !.pc = "done"]]
          /\ sockets' = [sockets EXCEPT ![ws] = ClosedBy(@)]
          /\ ev' = [NoEvent EXCEPT !.kind = "connection", !.ws = ws, !.code = 4000,
                      !.token = token, !.clientType = clientType, !.session = sessionToken]
          /\ sent' = << >>
          /\ UNCHANGED <<liveConnections, heap>>
     ELSE IF clientType = "app" /\ sessionToken = Missing
     THEN /\ frames' = [frames EXCEPT ![ws] = [NoFrame EXCEPT !.pc = "done"]]
          /\ sockets' = [sockets EXCEPT ![ws] = ClosedBy(@)]
          /\ ev' = [NoEvent EXCEPT !.kind = "connection", !.ws = ws, !.code = 4002,
                      !.token = token, !.clientType = clientType]
          /\ sent' = << >>
          /\ UNCHANGED <<liveConnections, heap>>
     ELSE IF clientType = "app"
     THEN PgAwait(ws, "session", token, clientType, sessionToken, NoUser)
     ELSE IF clientType = "gateway"
     THEN PgAwait(ws, "gateway", token, clientType, sessionToken, NoUser)
     ELSE PgAdmit(ws, token, clientType, sessionToken)
  /\ UNCHANGED <<now, sessions, pairings, authvars>>

\* getUserFromSession has answered: its SELECT and, for an expired row, its
\* DELETE (a second await, after which null is returned whatever happened in
\* between) are taken together.
PgResumeSession(ws) ==
  LET f == frames[ws] IN
  /\ f.pc = "session"
  /\ sessions' = SessionsAfterGet(f.sessionToken)
  /\ IF getUserFromSession(f.sessionToken) = NoUser
     THEN PgReject(ws, 4003)
     ELSE PgAwait(ws, "pairing", f.token, f.clientType, f.sessionToken,
                  getUserFromSession(f.sessionToken))
  /\ UNCHANGED <<now, pairings, authvars>>

\* SELECT id FROM pairings WHERE gateway_token = $1 AND user_id = $2 has answered.
PgResumePairing(ws) ==
  LET f == frames[ws] IN
  /\ f.pc = "pairing"
  /\ IF PairingOfUser(f.token, f.user)
     THEN PgAdmit(ws, f.token, f.clientType, f.sessionToken)
     ELSE PgReject(ws, 4004)
  /\ UNCHANGED <<now, sessions, pairings, authvars>>

\* SELECT id FROM pairings WHERE gateway_token = $1 has answered.
PgResumeGateway(ws) ==
  LET f == frames[ws] IN
  /\ f.pc = "gateway"
  /\ IF PairingRegistered(f.token)
     THEN PgAdmit(ws, f.token, f.clientType, f.sessionToken)
     ELSE PgReject(ws, 4005)
  /\ UNCHANGED <<now, sessions, pairings, authvars>>

\* ws.on('message', (data) => ...), on the entry the closure holds.
PgTarget(ws) ==
  IF sockets[ws].clientType = "app"
  THEN heap[frames[ws].connection].gatewaySocket
  ELSE heap[frames[ws].connection].appSocket

PgRelayed(ws, data) ==
  IF JSONparse(data) = SyntaxError THEN << >>
  ELSE IF IsOpen(PgTarget(ws))
  THEN << <<PgTarget(ws), JSONstringify(JSONparse(data))>> >>
  ELSE << >>

\* A message event; without a listener (the handler is still awaiting, or the
\* attempt was rejected) the message is lost.
PgOnMessage(ws, data) ==
  /\ sockets[ws].readyState \in {"OPEN", "CLOSING"}
  /\ sockets[ws].readyState = "CLOSING" => ~sockets[ws].handlers
  /\ ev' = [NoEvent EXCEPT !.kind = "message", !.ws = ws, !.data = data]
  /\ sent' = IF sockets[ws].handlers THEN PgRelayed(ws, data) ELSE << >>
  /\ UNCHANGED <<now, sessions, pairings, liveConnections, sockets, pgvars, authvars>>

\* ws.on('close', () => ...), on the entry the closure holds.
PgCleared(ws) ==
  IF sockets[ws].clientType = "app"
  THEN [heap[frames[ws].connection] EXCEPT !.appSocket = Undefined]
  ELSE [heap[frames[ws].connection] EXCEPT !.gatewaySocket = Undefined]

PgCloseNotices(ws) ==
  LET connection == heap[frames[ws].connection] IN
  IF sockets[ws].clientType = "app"
  THEN IF connection.gatewaySocket # Undefined
       THEN << <<connection.gatewaySocket, Notice("app_disconnected")>> >> ELSE << >>
  ELSE IF connection.appSocket # Undefined
       THEN << <<connection.appSocket, Notice("gateway_disconnected")>> >> ELSE << >>

\* The 'close' event; without a listener it is lost (that of a rejected
\* attempt, which changes nothing any more, is left out).
PgOnClose(ws) ==
  /\ sockets[ws].readyState = "CLOSING"
  /\ sockets[ws].handlers \/ frames[ws].pc # "done"
  /\ sockets' = [sockets EXCEPT ![ws].readyState = "CLOSED"]
  /\ heap' = IF sockets[ws].handlers
             THEN [heap EXCEPT ![frames[ws].connection] = PgCleared(ws)] ELSE heap
  /\ ev' = [NoEvent EXCEPT !.kind = "close", !.ws = ws]
  /\ sent' = IF sockets[ws].handlers THEN PgCloseNotices(ws) ELSE << >>
  /\ UNCHANGED <<now, sessions, pairings, liveConnections, frames, authvars>>

\* The connection attempts and the frames that the clients of this revision make.
PgRequests ==
  { [token |-> "T1", clientType |-> "app", session |-> "sess_1"],
    [token |-> "T1", clientType |-> "gateway", session |-> Missing],
    [token |-> "T1", clientType |-> "admin", session |-> Missing],
    [token |-> "T2", clientType |-> "app", session |-> "sess_1"],
    [token |-> "T2", clientType |-> "gateway", session |-> Missing],
    [token |-> "T1", clientType |-> "app", session |-> "sess_2"],
    [token |-> "T1", clientType |-> "app", session |-> Missing],
    [token |-> Missing, clientType |-> "gateway", session |-> Missing] }

PgClientData ==
  { Text(TRUE, FALSE, "message", "", "", "1"),
    Text(FALSE, FALSE, "message", "", "", "") }

InitPg == Init

NextPg ==
  \/ \E ws \in Sockets, r \in PgRequests :
       PgOnConnection(ws, r.token, r.clientType, r.session)
  \/ \E ws \in Sockets : PgResumeSession(ws)
  \/ \E ws \in Sockets : PgResumePairing(ws)
  \/ \E ws \in Sockets : PgResumeGateway(ws)
  \/ \E ws \in Sockets, data \in PgClientData : PgOnMessage(ws, data)
  \/ \E ws \in Sockets : StartClose(ws)
  \/ \E ws \in Sockets : PgOnClose(ws)

SpecPg == InitPg /\ [][NextPg]_vars

\* C19: whatever the interleaving of the awaiting admissions, the entry of a
\* token is created once and never replaced (one object per key of the table),
\* and the handlers of every admitted socket hold the entry the table has for
\* the socket's token.
C19_OneEntryPerToken ==
  [][/\ \A t \in DOMAIN liveConnections :
          t \in DOMAIN liveConnections' /\ liveConnections'[t] = liveConnections[t]
     /\ Len(heap') = Cardinality(DOMAIN liveConnections')
     /\ \A ws \in Sockets :
          sockets'[ws].handlers =>
            /\ sockets'[ws].token \in DOMAIN liveConnections'
            /\ frames'[ws].connection = liveConnections'[sockets'[ws].token]]_vars

\* The admission of a has just ended, after that of b, which began later; both
\* are for the same token and no other socket was admitted for it.
C19_Witness ==
  \E a, b \in Sockets :
    /\ a < b
    /\ ev.kind = "connection" /\ ev.code = 0 /\ ev.ws = a
    /\ sockets[a].handlers /\ sockets[b].handlers
    /\ sockets[a].token = sockets[b].token
    /\ sockets[a].clientType = "app" /\ sockets[b].clientType = "gateway"
    /\ \A c \in Sockets \ {a, b} : sockets[c].handlers => sockets[c].token # sockets[a].token
    /\ frames[a].connection = frames[b].connection
    /\ heap[frames[a].connection] = [appSocket |-> a, gatewaySocket |-> b]

\* ------------------------------------------------- verification service
\* The clock counts seconds.
MaxCodes == 2
CodeTTL == 10 * 60
SessionTTL == 30 * 24 * 60 * 60

\* The instants at which something is asked of the server.
Instants == {0, CodeTTL, CodeTTL + 1}

\* req.body.email as the clients send it, and email.toLowerCase().trim().
RawEmails == {"a@x.io", " A@X.io", "b@x.io", "a.x.io"}
Normalized(email) ==
  CASE email = "a@x.io" -> "a@x.io"
    [] email = " A@X.io" -> "a@x.io"
    [] email = "b@x.io" -> "b@x.io"
    [] email = "c@x.io" -> "c@x.io"
    [] email = "a.x.io" -> "a.x.io"
    [] email = Missing -> Missing

\* email.includes('@')
IncludesAt(email) == email \in {"a@x.io", " A@X.io", "b@x.io"}

\* What generateCode() may return.
Codes == {"123456", "654321"}

\* `sess_${nanoid(32)}`: the n-th token drawn differs from all before it.
SessionToken(n) == <<"sess_a", "sess_b", "sess_c", "sess_d", "sess_e">>[n]

Response(status, error, token) == [status |-> status, error |-> error, token |-> token]

\* The insert undone when the notifier fails.
CodesAfterRequestRolledBack(email, code, delivered) ==
  IF ~delivered THEN verification_codes
  ELSE verification_codes \cup
         {[id |-> Cardinality(verification_codes) + 1,
           email |-> Normalized(email), code |-> code,
           expires_at |-> now + CodeTTL, used |-> FALSE, created_at |-> now]}

\* INSERT INTO verification_codes (email, code, expires_at): it is made before
\* the notifier is called and stays whatever the notifier returns.
CodesAfterRequest(email, code, delivered) ==
  verification_codes \cup
    {[id |-> Cardinality(verification_codes) + 1,
      email |-> Normalized(email), code |-> code,
      expires_at |-> now + CodeTTL, used |-> FALSE, created_at |-> now]}

\* POST /api/auth/request-code; delivered is what sendVerificationEmail returns.
RequestCode(email, code, delivered) ==
  /\ Cardinality(verification_codes) < MaxCodes
  /\ req' = [NoRequest EXCEPT !.route = "request-code", !.email = email]
  /\ IF email = Missing \/ ~IncludesAt(email)
     THEN /\ res' = Response(400, "Valid email required", Missing)
          /\ UNCHANGED verification_codes
     ELSE /\ verification_codes' = CodesAfterRequest(email, code, delivered)
          /\ res' = IF delivered THEN Response(200, Missing, Missing)
                    ELSE Response(500, "Failed to send email", Missing)
  /\ UNCHANGED <<now, sessions, pairings, liveConnections, sockets, ev, sent,
                 pgvars, client, users, minted, pairing_seq, calls>>

\* SELECT .. WHERE email = ? AND code = ? AND used = 0 ORDER BY created_at DESC
\* LIMIT 1: the rows this may return (any of those created last).
Matching(email, code) ==
  {r \in verification_codes : r.email = email /\ r.code = code /\ ~r.used}
Selected(email, code) ==
  {r \in Matching(email, code) :
     \A q \in Matching(email, code) : q.created_at <= r.created_at}

\* users.id (AUTOINCREMENT), written as the broker's Users are.
UserId(n) == <<"u1", "u2", "u3", "u4">>[n]

\* getOrCreateUser(email)
UserOf(email) ==
  IF \E u \in users : u.email = email
  THEN CHOOSE u \in users : u.email = email
  ELSE [id |-> UserId(Cardinality(users) + 1), email |-> email]

\* An expiry test that never finds a code expired.
CodeExpiredNever(verification) == FALSE

\* new Date(verification.expires_at) < new Date()
CodeExpired(verification) == verification.expires_at < now

\* The code marked used ahead of the expiry test.
CodesAfterVerifyMarkingFirst(verification) ==
  (verification_codes \ {verification}) \cup {[verification EXCEPT !.used = TRUE]}

\* UPDATE verification_codes SET used = 1 WHERE id = ?: it comes after the
\* return of an expired code.
CodesAfterVerify(verification) ==
  IF CodeExpired(verification) THEN verification_codes
  ELSE (verification_codes \ {verification}) \cup {[verification EXCEPT !.used = TRUE]}

\* POST /api/auth/verify
Verify(email, code) ==
  /\ req' = [NoRequest EXCEPT !.route = "verify", !.email = email, !.code = code]
  /\ IF email = Missing \/ code = Missing
     THEN /\ res' = Response(400, "Email and code required", Missing)
          /\ UNCHANGED <<verification_codes, users, sessions, minted>>
     ELSE IF Matching(Normalized(email), code) = {}
     THEN /\ res' = Response(400, "Invalid code", Missing)
          /\ UNCHANGED <<verification_codes, users, sessions, minted>>
     ELSE \E verification \in Selected(Normalized(email), code) :
            IF CodeExpired(verification)
            THEN /\ res' = Response(400, "Code expired", Missing)
                 /\ verification_codes' = CodesAfterVerify(verification)
                 /\ UNCHANGED <<users, sessions, minted>>
            ELSE /\ minted < MaxCodes
                 /\ verification_codes' = CodesAfterVerify(verification)
                 /\ users' = users \cup {UserOf(Normalized(email))}
                 /\ minted' = minted + 1
                 /\ sessions' = sessions \cup
                      {[token |-> SessionToken(minted + 1),
                        user_id |-> UserOf(Normalized(email)).id,
                        expires_at |-> now + SessionTTL]}
                 /\ res' = Response(200, Missing, SessionToken(minted + 1))
  /\ UNCHANGED <<now, pairings, liveConnections, sockets, ev, sent, pgvars, client,
                 pairing_seq, calls>>

\* Time passes between two requests.
Tick(t) ==
  /\ t > now
  /\ now' = t
  /\ req' = NoRequest
  /\ res' = NoResponse
  /\ UNCHANGED <<sessions, pairings, liveConnections, sockets, ev, sent, pgvars, client,
                 verification_codes, users, minted, pairing_seq, calls>>

InitAuth ==
  /\ now = 0
  /\ sessions = {}
  /\ pairings = {}
  /\ liveConnections = << >>
  /\ sockets = [s \in Sockets |-> NoSocket]
  /\ ev = NoEvent
  /\ sent = << >>
  /\ OthersIdle

NextAuth ==
  \/ \E email \in RawEmails \cup {Missing}, code \in Codes, delivered \in BOOLEAN :
       RequestCode(email, code, delivered)
  \/ \E email \in RawEmails \cup {Missing}, code \in Codes \cup {Missing} :
       Verify(email, code)
  \/ \E t \in Instants : Tick(t)

SpecAuth == InitAuth /\ [][NextAuth]_vars

\* C20 (as claimed): a verify request for (email, code) succeeds and marks a
\* code used when the store holds such a code, unused and unexpired; and it
\* fails with 'Invalid code', minting no session, when that (email, code) has
\* been verified before.
C20_CodeWorksOnce ==
  [][req'.route = "verify" /\ req'.email # Missing /\ req'.code # Missing =>
       LET rows == {r \in verification_codes :
                      r.email = Normalized(req'.email) /\ r.code = req'.code}
       IN /\ (\E r \in rows : ~r.used /\ ~(r.expires_at < now)) =>
               /\ res'.status = 200
               /\ \E r \in rows :
                    /\ ~r.used /\ ~(r.expires_at < now)
                    /\ [r EXCEPT !.used = TRUE] \in verification_codes'
          /\ (\E r \in rows : r.used) =>
               /\ res' = Response(400, "Invalid code", Missing)
               /\ sessions' = sessions]_vars

\* C28: in the first server revision a well-formed message of an admitted app
\* or gateway socket is forwarded, and nothing else is sent, when the socket in
\* the opposite slot is open; otherwise the sender gets one 'Peer not
\* connected' error and nothing is forwarded.
C28_LegacyPeerNotConnected ==
  ( /\ ev.kind = "message"
    /\ ev.data.wf
    /\ Admitted(ev.ws)
    /\ sockets[ev.ws].clientType \in Roles ) =>
    IF IsOpen(OppositeSlot(ev.ws))
    THEN /\ Len(sent) = 1
         /\ sent[1][1] = OppositeSlot(ev.ws)
         /\ JSONparse(sent[1][2]) = JSONparse(ev.data)
    ELSE sent = << <<ev.ws, PeerNotConnected>> >>

C28_Witness ==
  /\ ev.kind = "message"
  /\ ev.data.wf
  /\ InstalledInOwnSlot(ev.ws)
  /\ OppositeSlot(ev.ws) # Undefined
  /\ ~IsOpen(OppositeSlot(ev.ws))
  /\ sent = << <<ev.ws, PeerNotConnected>> >>

\* C30 (as claimed): in the PostgreSQL revision no slot holds a socket whose
\* 'close' event has already occurred.
C30_NoDeadSocketInSlot ==
  \A i \in DOMAIN heap :
    /\ heap[i].appSocket # Undefined => sockets[heap[i].appSocket].readyState # "CLOSED"
    /\ heap[i].gatewaySocket # Undefined =>
         sockets[heap[i].gatewaySocket].readyState # "CLOSED"

\* The rows a verify request for (email, code) can be answered with.
RowsFor(email, code) ==
  {r \in verification_codes : r.email = Normalized(email) /\ r.code = code /\ ~r.used}

\* C22: a verify request whose matching unused codes have all expired is
\* answered 'Code expired' and changes nothing in the store (no account, no
\* session, no used flag); and no step marks used a code that has expired.
C22_ExpiredCodeStaysUnused ==
  [][/\ ( /\ req'.route = "verify"
          /\ req'.email # Missing /\ req'.code # Missing
          /\ RowsFor(req'.email, req'.code) # {}
          /\ \A r \in RowsFor(req'.email, req'.code) : r.expires_at < now ) =>
            /\ res' = Response(400, "Code expired", Missing)
            /\ verification_codes' = verification_codes
            /\ users' = users
            /\ sessions' = sessions
     /\ \A r \in verification_codes :
          (~r.used /\ r.expires_at < now) => r \in verification_codes']_vars

C22_Witness ==
  /\ req.route = "verify"
  /\ res = Response(400, "Code expired", Missing)
  /\ \E r \in RowsFor(req.email, req.code) : r.expires_at < now

\* C27: a code request whose delivery fails is answered with the delivery
\* failure and still leaves its new row stored, unused and unexpired; a verify
\* request with that code right after it succeeds.
C27_UndeliveredCodeIsUsable ==
  [][/\ (req'.route = "request-code" /\ res'.status = 500) =>
          /\ res'.error = "Failed to send email"
          /\ \E r \in verification_codes' \ verification_codes :
               /\ verification_codes' = verification_codes \cup {r}
               /\ r.email = Normalized(req'.email)
               /\ ~r.used
               /\ ~(r.expires_at < now)
     /\ \A r \in verification_codes :
          ( /\ req.route = "request-code" /\ res.status = 500
            /\ r.id = Cardinality(verification_codes)
            /\ req'.route = "verify"
            /\ Normalized(req'.email) = r.email /\ req'.code = r.code ) =>
              /\ res'.status = 200
              /\ res'.token # Missing
              /\ \E u \in verification_codes' : u.used /\ u.email = r.email /\ u.code = r.code]_vars

C27_Witness ==
  /\ req.route = "request-code"
  /\ res = Response(500, "Failed to send email", Missing)
  /\ \E r \in verification_codes :
       /\ r.id = Cardinality(verification_codes)
       /\ r.email = Normalized(req.email)
       /\ ~r.used /\ ~(r.expires_at < now)

\* ------------------------------------------- sessions and pairing registry
\* The HTTP routes behind authMiddleware and the registration route, on a store
\* in which two accounts have signed in at time 0.
MaxPairings == 2

\* The instants around the expiry of a session issued at time 0.
StoreInstants == {0, SessionTTL, SessionTTL + 1}

\* Authorization: Bearer <token> as the clients send it; "sess_x" was never issued.
Bearers == {"sess_a", "sess_b", "sess_x"}

\* req.body.email of a registration, and email.toLowerCase().trim().
PairingEmails == {"a@x.io", " A@X.io", "b@x.io", "c@x.io"}

Unauthorized == Response(401, "Unauthorized", Missing)
InvalidSession == Response(401, "Invalid or expired session", Missing)
PairingNotFound == Response(404, "Pairing not found", Missing)
Ok == Response(200, Missing, Missing)

\* authMiddleware: the response that ends the request, or Ok for next().
Authenticated(bearer) ==
  IF bearer = Missing THEN Unauthorized
  ELSE IF getUserFromSession(bearer) = NoUser THEN InvalidSession
  ELSE Ok

\* ... and what it leaves in table sessions.
SessionsAfterAuth(bearer) ==
  IF bearer = Missing THEN sessions ELSE SessionsAfterGet(bearer)

\* GET /api/me
Me(bearer) ==
  /\ req' = [NoRequest EXCEPT !.route = "me", !.bearer = bearer]
  /\ res' = Authenticated(bearer)
  /\ sessions' = SessionsAfterAuth(bearer)
  /\ UNCHANGED <<now, pairings, liveConnections, sockets, ev, sent, pgvars, client,
                 verification_codes, users, minted, pairing_seq, calls>>

\* A logout that signs the account out everywhere.
SessionsAfterLogoutEverywhere(bearer) ==
  IF Authenticated(bearer) = Ok
  THEN {s \in SessionsAfterAuth(bearer) : s.user_id # getUserFromSession(bearer)}
  ELSE SessionsAfterAuth(bearer)

\* POST /api/auth/logout: authMiddleware, then DELETE FROM sessions WHERE token = ?
SessionsAfterLogout(bearer) ==
  IF Authenticated(bearer) = Ok
  THEN {s \in SessionsAfterAuth(bearer) : s.token # bearer}
  ELSE SessionsAfterAuth(bearer)

Logout(bearer) ==
  /\ req' = [NoRequest EXCEPT !.route = "logout", !.bearer = bearer]
  /\ res' = Authenticated(bearer)
  /\ sessions' = SessionsAfterLogout(bearer)
  /\ UNCHANGED <<now, pairings, liveConnections, sockets, ev, sent, pgvars, client,
                 verification_codes, users, minted, pairing_seq, calls>>

\* A registration that leaves an existing row to its first owner.
PairingsAfterRegisterKeepingOwner(user_id, gateway_token) ==
  IF \E p \in pairings : p.gateway_token = gateway_token
  THEN pairings
  ELSE pairings \cup {[id |-> pairing_seq + 1, user_id |-> user_id,
                       gateway_token |-> gateway_token]}

\* SELECT id FROM pairings WHERE gateway_token = ?, then UPDATE .. SET user_id
\* or INSERT.
PairingsAfterRegister(user_id, gateway_token) ==
  IF \E p \in pairings : p.gateway_token = gateway_token
  THEN {IF p.gateway_token = gateway_token THEN [p EXCEPT !.user_id = user_id] ELSE p :
          p \in pairings}
  ELSE pairings \cup {[id |-> pairing_seq + 1, user_id |-> user_id,
                       gateway_token |-> gateway_token]}

\* POST /api/pairings/register
RegisterPairing(email, gateway_token) ==
  /\ req' = [NoRequest EXCEPT !.route = "register", !.email = email,
                              !.gateway_token = gateway_token]
  /\ IF email = Missing \/ gateway_token = Missing
     THEN /\ res' = Response(400, "Email and gateway_token required", Missing)
          /\ UNCHANGED <<users, pairings, pairing_seq>>
     ELSE /\ (\E p \in pairings : p.gateway_token = gateway_token)
               \/ pairing_seq < MaxPairings
          /\ users' = users \cup {UserOf(Normalized(email))}
          /\ pairings' = PairingsAfterRegister(UserOf(Normalized(email)).id, gateway_token)
          /\ pairing_seq' = IF \E p \in pairings : p.gateway_token = gateway_token
                            THEN pairing_seq ELSE pairing_seq + 1
          /\ res' = Ok
  /\ UNCHANGED <<now, sessions, liveConnections, sockets, ev, sent, pgvars, client,
                 verification_codes, minted, calls>>

\* A delete that looks the row up by its id alone.
PairingsAfterDeleteAnyOwner(user_id, id) ==
  {p \in pairings : p.id # id}

\* DELETE FROM pairings WHERE id = ? AND user_id = ?
PairingsAfterDelete(user_id, id) ==
  {p \in pairings : ~(p.id = id /\ p.user_id = user_id)}

\* DELETE /api/pairings/:id
DeletePairingById(bearer, id) ==
  /\ req' = [NoRequest EXCEPT !.route = "delete", !.bearer = bearer, !.id = id]
  /\ sessions' = SessionsAfterAuth(bearer)
  /\ IF Authenticated(bearer) # Ok
     THEN /\ res' = Authenticated(bearer)
          /\ UNCHANGED pairings
     ELSE /\ pairings' = PairingsAfterDelete(getUserFromSession(bearer), id)
          /\ res' = IF pairings' = pairings THEN PairingNotFound ELSE Ok
  /\ UNCHANGED <<now, liveConnections, sockets, ev, sent, pgvars, client,
                 verification_codes, users, minted, pairing_seq, calls>>

\* Two accounts, each with the session its verification minted at time 0.
InitStore ==
  /\ now = 0
  /\ users = {[id |-> "u1", email |-> "a@x.io"], [id |-> "u2", email |-> "b@x.io"]}
  /\ verification_codes =
       {[id |-> 1, email |-> "a@x.io", code |-> "123456", expires_at |-> CodeTTL,
         used |-> TRUE, created_at |-> 0],
        [id |-> 2, email |-> "b@x.io", code |-> "654321", expires_at |-> CodeTTL,
         used |-> TRUE, created_at |-> 0]}
  /\ sessions = {[token |-> "sess_a", user_id |-> "u1", expires_at |-> SessionTTL],
                 [token |-> "sess_b", user_id |-> "u2", expires_at |-> SessionTTL]}
  /\ minted = 2
  /\ pairings = {}
  /\ pairing_seq = 0
  /\ req = NoRequest
  /\ res = NoResponse
  /\ liveConnections = << >>
  /\ sockets = [s \in Sockets |-> NoSocket]
  /\ ev = NoEvent
  /\ sent = << >>
  /\ heap = << >>
  /\ frames = [s \in Sockets |-> NoFrame]
  /\ calls = [c \in Calls |-> NoCall]
  /\ client = NoClient

NextStore ==
  \/ \E bearer \in Bearers \cup {Missing} : Me(bearer)
  \/ \E bearer \in Bearers \cup {Missing} : Logout(bearer)
  \/ \E email \in PairingEmails \cup {Missing}, gateway_token \in Tokens \cup {Missing} :
       RegisterPairing(email, gateway_token)
  \/ \E bearer \in Bearers \cup {Missing}, id \in 1..MaxPairings :
       DeletePairingById(bearer, id)
  \/ \E t \in StoreInstants : Tick(t)

SpecStore == InitStore /\ [][NextStore]_vars

\* C23 (as claimed): a request that presents the token of a session row with
\* expiry E is let through when now < E; when now >= E it is answered 'Invalid
\* or expired session' and the row is deleted; a token without a row is
\* answered the same.
C23_SessionExpiresAtE ==
  [][(req'.route \in {"me", "logout", "delete"} /\ req'.bearer # Missing) =>
       /\ \A s \in sessions :
            s.token = req'.bearer =>
              IF now < s.expires_at
              THEN res' # InvalidSession
              ELSE /\ res' = InvalidSession
                   /\ ~\E r \in sessions' : r.token = s.token
       /\ (~\E s \in sessions : s.token = req'.bearer) =>
            /\ res' = InvalidSession
            /\ sessions' = sessions]_vars

\* C24: the registry never holds two rows for one gateway token; a Register
\* call leaves the token's row (the same row, when there was one) owned by the
\* account of the email it was given, creating that account if needed, and
\* leaves the other rows alone; no other operation changes a row's owner.
C24_RegisterRepointsOwner ==
  [][/\ \A p, q \in pairings' : p.gateway_token = q.gateway_token => p = q
     /\ \A u, v \in users' : u.email = v.email => u = v
     /\ ( /\ req'.route = "register"
          /\ req'.email # Missing /\ req'.gateway_token # Missing ) =>
            /\ \E u \in users' : \E p \in pairings' :
                 /\ u.email = Normalized(req'.email)
                 /\ p.gateway_token = req'.gateway_token
                 /\ p.user_id = u.id
            /\ \A p \in pairings :
                 IF p.gateway_token = req'.gateway_token
                 THEN \E q \in pairings' : q.id = p.id /\ q.gateway_token = p.gateway_token
                 ELSE p \in pairings'
            /\ Cardinality(pairings') =
                 Cardinality(pairings)
                   + (IF \E p \in pairings : p.gateway_token = req'.gateway_token
                      THEN 0 ELSE 1)
     /\ req'.route # "register" => pairings' \subseteq pairings]_vars

\* A Register call has just re-pointed or created the row of its token.
C24_Witness ==
  /\ req.route = "register"
  /\ res = Ok
  /\ Cardinality(pairings) = 2
  /\ \E p \in pairings :
       /\ p.gateway_token = req.gateway_token
       /\ p.id < pairing_seq
       /\ \E u \in users : u.id = p.user_id /\ u.email = Normalized(req.email)
                            /\ u.email = "c@x.io"

\* C25: an authenticated delete removes the row with the given id when the
\* caller owns it and answers success; when the row belongs to another account
\* or does not exist it answers 404 'Pairing not found' and removes nothing.
C25_DeleteOnlyOwn ==
  [][(req'.route = "delete" /\ Authenticated(req'.bearer) = Ok) =>
       LET own == {p \in pairings :
                     p.id = req'.id /\ p.user_id = getUserFromSession(req'.bearer)}
       IN IF own # {}
          THEN pairings' = pairings \ own /\ res' = Ok
          ELSE pairings' = pairings /\ res' = PairingNotFound]_vars

\* The caller asked for a row that exists and belongs to the other account.
C25_Witness ==
  /\ req.route = "delete"
  /\ res = PairingNotFound
  /\ \E p \in pairings : p.id = req.id /\ p.user_id # getUserFromSession(req.bearer)

\* C26 (as claimed): a logout that presents a bearer token is answered with the
\* success confirmation, and changes nothing when the token has no session.
C26_LogoutIsIdempotent ==
  [][(req'.route = "logout" /\ req'.bearer # Missing) =>
       /\ res' = Ok
       /\ (~\E s \in sessions : s.token = req'.bearer) =>
            /\ sessions' = sessions
            /\ users' = users
            /\ pairings' = pairings]_vars

\* ----------------------------------------- HTTP routes beside live sockets
\* POST /api/auth/logout with a valid session, while the broker has sockets.
LogoutBesideSockets(sessionToken) ==
  /\ sessions' = SessionsAfterLogout(sessionToken)
  /\ sessions' # sessions
  /\ ev' = NoEvent
  /\ sent' = << >>
  /\ UNCHANGED <<now, pairings, liveConnections, sockets>>
  /\ UNCHANGED <<pgvars, authvars>>

InitFrame == Init

NextFrame ==
  \/ Next
  \/ \E sessionToken \in SessionTokens : LogoutBesideSockets(sessionToken)

SpecFrame == InitFrame /\ [][NextFrame]_vars

\* C29: a step of an HTTP route (delete pairing, register, logout) changes
\* neither the table nor any socket; and a well-formed message of an installed
\* socket is forwarded to the open socket of the opposite slot whatever the
\* registry and the sessions hold by then.
C29_HttpLeavesBrokerAlone ==
  [][/\ ev' = NoEvent => (liveConnections' = liveConnections /\ sockets' = sockets)
     /\ ( /\ ev'.kind = "message"
          /\ ev'.data.wf
          /\ InstalledInOwnSlot(ev'.ws)
          /\ IsOpen(OppositeSlot(ev'.ws)) ) =>
            /\ Len(sent') = 1
            /\ sent'[1][1] = OppositeSlot(ev'.ws)
            /\ JSONparse(sent'[1][2]) = JSONparse(ev'.data)]_vars

\* An app socket relays although its session and its pairing are gone.
C29_Witness ==
  /\ ev.kind = "message"
  /\ ev.data.wf
  /\ InstalledInOwnSlot(ev.ws)
  /\ sockets[ev.ws].clientType = "app"
  /\ Len(sent) = 1
  /\ sent[1][1] = OppositeSlot(ev.ws)
  /\ ~PairingRegistered(sockets[ev.ws].token)
  /\ ~\E s \in sessions : s.user_id = "u1"

\* --------------------------------- PostgreSQL revision: POST /api/auth/verify
\* app.post('/api/auth/verify', async (req, res) => ...): the handler gives up
\* control at each pool.query; a statement takes effect when its await resumes.
\* calls[c] is the frame of request c.

PgVerifyEmails == {"a@x.io", " A@X.io"}

\* The handler ends with a response.
Answered(c, response) ==
  calls' = [calls EXCEPT ![c] = [@ EXCEPT !.pc = "done", !.response = response]]

\* The handler up to its first await.
PgVerifyBegin(c, email, code) ==
  /\ calls[c].pc = "idle"
  /\ \A b \in Calls : b < c => calls[b].pc # "idle"
  /\ IF email = Missing \/ code = Missing
     THEN Answered(c, Response(400, "Email and code required", Missing))
     ELSE calls' = [calls EXCEPT ![c] =
                      [NoCall EXCEPT !.pc = "select", !.email = Normalized(email),
                                     !.code = code]]
  /\ UNCHANGED <<now, sessions, pairings, liveConnections, sockets, ev, sent, pgvars, client,
                 verification_codes, users, minted, req, res, pairing_seq>>

\* SELECT id, expires_at .. WHERE email = $1 AND code = $2 AND used = FALSE has
\* answered; the UPDATE is sent.
PgVerifySelected(c) ==
  /\ calls[c].pc = "select"
  /\ IF Matching(calls[c].email, calls[c].code) = {}
     THEN Answered(c, Response(400, "Invalid code", Missing))
     ELSE \E verification \in Selected(calls[c].email, calls[c].code) :
            IF CodeExpired(verification)
            THEN Answered(c, Response(400, "Code expired", Missing))
            ELSE calls' = [calls EXCEPT ![c] =
                             [@ EXCEPT !.pc = "update", !.verification = verification.id]]
  /\ UNCHANGED <<now, sessions, pairings, liveConnections, sockets, ev, sent, pgvars, client,
                 verification_codes, users, minted, req, res, pairing_seq>>

\* UPDATE verification_codes SET used = TRUE WHERE id = $1
CodesAfterUpdate(id) ==
  {IF r.id = id THEN [r EXCEPT !.used = TRUE] ELSE r : r \in verification_codes}

\* The UPDATE has answered; getOrCreateUser sends its SELECT.
PgVerifyUpdated(c) ==
  /\ calls[c].pc = "update"
  /\ verification_codes' = CodesAfterUpdate(calls[c].verification)
  /\ calls' = [calls EXCEPT ![c].pc = "find_user"]
  /\ UNCHANGED <<now, sessions, pairings, liveConnections, sockets, ev, sent, pgvars, client,
                 users, minted, req, res, pairing_seq>>

\* getOrCreateUser: SELECT id, email FROM users WHERE email = $1 has answered.
PgVerifyUserFound(c) ==
  /\ calls[c].pc = "find_user"
  /\ calls' = [calls EXCEPT ![c].pc =
                 IF \E u \in users : u.email = calls[c].email
                 THEN "create_session" ELSE "insert_user"]
  /\ UNCHANGED <<now, sessions, pairings, liveConnections, sockets, ev, sent, pgvars, client,
                 verification_codes, users, minted, req, res, pairing_seq>>

\* getOrCreateUser: INSERT INTO users (email) has answered; email is UNIQUE, so
\* the insert of an email that is there by now throws and the handler ends
\* without a response.
PgVerifyUserInserted(c) ==
  /\ calls[c].pc = "insert_user"
  /\ IF \E u \in users : u.email = calls[c].email
     THEN /\ calls' = [calls EXCEPT ![c].pc = "thrown"]
          /\ UNCHANGED users
     ELSE /\ users' = users \cup {UserOf(calls[c].email)}
          /\ calls' = [calls EXCEPT ![c].pc = "create_session"]
  /\ UNCHANGED <<now, sessions, pairings, liveConnections, sockets, ev, sent, pgvars, client,
                 verification_codes, minted, req, res, pairing_seq>>

\* createSession: INSERT INTO sessions has answered; res.json({ token, user }).
PgVerifySessionCreated(c) ==
  /\ calls[c].pc = "create_session"
  /\ minted' = minted + 1
  /\ sessions' = sessions \cup
       {[token |-> SessionToken(minted + 1), user_id |-> UserOf(calls[c].email).id,
         expires_at |-> now + SessionTTL]}
  /\ Answered(c, Response(200, Missing, SessionToken(minted + 1)))
  /\ UNCHANGED <<now, pairings, liveConnections, sockets, ev, sent, pgvars, client,
                 verification_codes, users, req, res, pairing_seq>>

\* One code has been requested for a@x.io and no account exists yet.
InitPgVerify ==
  /\ now = 0
  /\ verification_codes =
       {[id |-> 1, email |-> "a@x.io", code |-> "123456", expires_at |-> CodeTTL,
         used |-> FALSE, created_at |-> 0]}
  /\ users = {}
  /\ sessions = {}
  /\ minted = 0
  /\ pairings = {}
  /\ pairing_seq = 0
  /\ req = NoRequest
  /\ res = NoResponse
  /\ liveConnections = << >>
  /\ sockets = [s \in Sockets |-> NoSocket]
  /\ ev = NoEvent
  /\ sent = << >>
  /\ heap = << >>
  /\ frames = [s \in Sockets |-> NoFrame]
  /\ calls = [c \in Calls |-> NoCall]
  /\ client = NoClient

NextPgVerify ==
  \/ \E c \in Calls, email \in PgVerifyEmails \cup {Missing}, code \in Codes \cup {Missing} :
       PgVerifyBegin(c, email, code)
  \/ \E c \in Calls : PgVerifySelected(c)
  \/ \E c \in Calls : PgVerifyUpdated(c)
  \/ \E c \in Calls : PgVerifyUserFound(c)
  \/ \E c \in Calls : PgVerifyUserInserted(c)
  \/ \E c \in Calls : PgVerifySessionCreated(c)

SpecPgVerify == InitPgVerify /\ [][NextPgVerify]_vars

\* C21 (as claimed): however the SELECT and UPDATE steps of concurrent verify
\* requests interleave, a code row yields at most one session: the requests
\* answered 200 and the sessions minted are no more than the rows marked used.
C21_OneSessionPerCode ==
  LET used == Cardinality({r \in verification_codes : r.used}) IN
  /\ Cardinality({c \in Calls : calls[c].response.status = 200}) <= used
  /\ Cardinality(sessions) <= used
\* ------------------------------------------------ peer-liveness view (C31)
\* No 'close' event is waiting to be dispatched to a registered handler.
NoEventPending ==
  \A ws \in Sockets : ~(sockets[ws].readyState = "CLOSING" /\ sockets[ws].handlers)

\* An admitted socket of role `role` for token t is open.
OpenSide(t, role) ==
  \E p \in Sockets :
    /\ Admitted(p)
    /\ sockets[p].token = t
    /\ sockets[p].clientType = role
    /\ sockets[p].readyState = "OPEN"

\* The last handler told socket ws that the side `role` came or went.
ToldConnected(ws, role) ==
  \E i \in DOMAIN sent : sent[i] = <<ws, Notice(PeerConnected(role))>>
ToldDisconnected(ws, role) ==
  \E i \in DOMAIN sent : sent[i] = <<ws, Notice(Disconnected(role))>>

\* C31 (as claimed): when no event is pending, the socket installed in a slot
\* that has just been told its peer connected has an open admitted peer for the
\* token, and the one that has just been told its peer disconnected has none.
C31_PeerViewAccurate ==
  NoEventPending =>
    \A t \in DOMAIN liveConnections : \A role \in Roles :
      LET me == Slot(t, role) IN
      me # Undefined =>
        /\ ToldConnected(me, Opposite(role)) => OpenSide(t, Opposite(role))
        /\ ToldDisconnected(me, Opposite(role)) => ~OpenSide(t, Opposite(role))

\* ------------------------------------------- two pairings side by side (C32)
\* Two accounts, each signed in and each with its own registered gateway token.
InitTwoPairings ==
  /\ now = 1
  /\ sessions = {[token |-> "sess_1", user_id |-> "u1", expires_at |-> 2],
                 [token |-> "sess_2", user_id |-> "u2", expires_at |-> 2]}
  /\ pairings = {[gateway_token |-> "T1", user_id |-> "u1"],
                 [gateway_token |-> "T2", user_id |-> "u2"]}
  /\ liveConnections = << >>
  /\ sockets = [s \in Sockets |-> NoSocket]
  /\ ev = NoEvent
  /\ sent = << >>
  /\ OthersIdle

NextTwoPairings ==
  \/ \E ws \in Sockets, token \in Tokens, clientType \in ClientTypes,
        sessionToken \in SessionTokens :
       OnConnection(ws, token, clientType, sessionToken)
  \/ \E ws \in Sockets, data \in ClientData : OnMessage(ws, data)
  \/ \E ws \in Sockets : StartClose(ws)
  \/ \E ws \in Sockets : OnClose(ws)

SpecTwoPairings == InitTwoPairings /\ [][NextTwoPairings]_vars

\* The handler that ran in this step belongs to socket ws, admitted under a token.
HandledFor(ws) ==
  /\ ev'.ws = ws
  /\ \/ ev'.kind = "connection" /\ ev'.code = 0
     \/ ev'.kind \in {"message", "close"} /\ Admitted(ws)

\* C32: whatever a handler of a socket admitted under token t sends goes to
\* sockets admitted under t, and the entries of the other tokens stay as they
\* were.
C32_CrossTokenIsolation ==
  [][\A ws \in Sockets :
       HandledFor(ws) =>
         LET t == sockets'[ws].token IN
         /\ \A i \in DOMAIN sent' :
              /\ sockets'[sent'[i][1]].handlers
              /\ sockets'[sent'[i][1]].token = t
         /\ \A other \in Tokens \ {t} :
              /\ (other \in DOMAIN liveConnections') = (other \in DOMAIN liveConnections)
              /\ other \in DOMAIN liveConnections =>
                   liveConnections'[other] = liveConnections[other]]_vars

\* A message was relayed inside the pairing of T1 while an open socket sat in a
\* slot of the pairing of T2.
C32_Witness ==
  /\ ev.kind = "message"
  /\ Admitted(ev.ws)
  /\ sockets[ev.ws].token = "T1"
  /\ sent # << >>
  /\ \E other \in Sockets :
       /\ sockets[other].token = "T2"
       /\ IsOpen(other)
       /\ Slot("T2", sockets[other].clientType) = other

\* --------------------------------------------- failed verification (C33)
\* C33: a verify request that fails is answered 400 with 'Email and code
\* required', 'Invalid code' or 'Code expired' and leaves the store as it was:
\* no account, no session, no used flag and no pairing changes.
C33_FailedVerifyChangesNothing ==
  [][(req'.route = "verify" /\ res'.status # 200) =>
       /\ res'.status = 400
       /\ res'.error \in {"Email and code required", "Invalid code", "Code expired"}
       /\ verification_codes' = verification_codes
       /\ users' = users
       /\ sessions' = sessions
       /\ minted' = minted
       /\ pairings' = pairings]_vars

\* An expired code was refused while the store held an account, a session and
\* the refused code.
C33_Witness ==
  /\ req.route = "verify"
  /\ res = Response(400, "Code expired", Missing)
  /\ users # {}
  /\ sessions # {}
  /\ \E r \in verification_codes :
       r.email = Normalized(req.email) /\ r.code = req.code /\ ~r.used

\* ------------------------------------------- logout of one session (C34)
\* The first account has signed in a second time, from another device.
InitSignedInTwice ==
  /\ now = 0
  /\ users = {[id |-> "u1", email |-> "a@x.io"], [id |-> "u2", email |-> "b@x.io"]}
  /\ verification_codes =
       {[id |-> 1, email |-> "a@x.io", code |-> "123456", expires_at |-> CodeTTL,
         used |-> TRUE, created_at |-> 0],
        [id |-> 2, email |-> "b@x.io", code |-> "654321", expires_at |-> CodeTTL,
         used |-> TRUE, created_at |-> 0],
        [id |-> 3, email |-> "a@x.io", code |-> "654321", expires_at |-> CodeTTL,
         used |-> TRUE, created_at |-> 0]}
  /\ sessions = {[token |-> "sess_a", user_id |-> "u1", expires_at |-> SessionTTL],
                 [token |-> "sess_b", user_id |-> "u2", expires_at |-> SessionTTL],
                 [token |-> "sess_c", user_id |-> "u1", expires_at |-> SessionTTL]}
  /\ minted = 3
  /\ pairings = {}
  /\ pairing_seq = 0
  /\ req = NoRequest
  /\ res = NoResponse
  /\ liveConnections = << >>
  /\ sockets = [s \in Sockets |-> NoSocket]
  /\ ev = NoEvent
  /\ sent = << >>
  /\ heap = << >>
  /\ frames = [s \in Sockets |-> NoFrame]
  /\ calls = [c \in Calls |-> NoCall]
  /\ client = NoClient

SpecSignedInTwice == InitSignedInTwice /\ [][NextStore]_vars

\* C34: a logout that succeeds removes the session row of the token presented
\* and nothing else: every other session row, of the same account or another,
\* stays and is as valid as before; accounts, codes and pairings are unchanged.
C34_LogoutRemovesOneSession ==
  [][(req'.route = "logout" /\ res' = Ok) =>
       /\ \E s \in sessions : s.token = req'.bearer
       /\ sessions' = {s \in sessions : s.token # req'.bearer}
       /\ \A s \in sessions :
            s.token # req'.bearer =>
              getUserFromSession(s.token)' = getUserFromSession(s.token)
       /\ users' = users
       /\ verification_codes' = verification_codes
       /\ pairings' = pairings]_vars

\* The first account has logged out its first session; its second session is
\* still valid, and a pairing is registered.
C34_Witness ==
  /\ req.route = "logout"
  /\ req.bearer = "sess_a"
  /\ res = Ok
  /\ getUserFromSession("sess_c") = "u1"
  /\ getUserFromSession("sess_b") = "u2"
  /\ pairings # {}

\* ------------------------------------------------ the app (authenticated)
\* function App(): each render binds screen and selectedPairing as constants,
\* and the functions made in that render (selectPairing, connectWebSocket and
\* the handlers it attaches) close over those constants; wsRef and the state
\* setters are shared by all renders.  client.handles[h] keeps, for the h-th
\* WebSocket made, its readyState and what its handlers closed over.
PairingTokens == {"T1", "T2"}

\* Whether connectWebSocket goes past its first line.
Connects == client.wsRef = 0 \/ client.handles[client.wsRef].readyState # "OPEN"

\* The WebSocket objects are numbered in the order they are made.
NextHandle == CHOOSE h \in Handles :
  /\ client.handles[h].readyState = "NONE"
  /\ \A g \in Handles : g < h => client.handles[g].readyState # "NONE"

\* connectWebSocket(gatewayToken), called in a render that saw screen and
\* selectedPairing, applied to the client c.
connectWebSocket(c, gatewayToken, screen, selectedPairing) ==
  IF ~Connects THEN c
  ELSE [c EXCEPT !.wsRef = NextHandle,
                 !.handles[NextHandle] =
                    [readyState |-> "CONNECTING", gatewayToken |-> gatewayToken,
                     screen |-> screen, selectedPairing |-> selectedPairing,
                     timer |-> "none"]]

\* wsRef.current?.close()
Closed(c) ==
  IF c.wsRef # 0 /\ c.handles[c.wsRef].readyState \in {"CONNECTING", "OPEN"}
  THEN [c EXCEPT !.handles[c.wsRef].readyState = "CLOSING"]
  ELSE c

Last(kind, h) == [kind |-> kind, ws |-> h]

ServerIdle ==
  UNCHANGED <<now, sessions, pairings, liveConnections, sockets, ev, sent, pgvars,
              verification_codes, users, minted, req, res, pairing_seq, calls>>

\* verifyCode or checkSession succeeded: setScreen('pairings')
signedIn ==
  /\ client.screen = "login"
  /\ client' = [client EXCEPT !.screen = "pairings", !.last = Last("signedIn", 0)]
  /\ ServerIdle

\* onClick of a row of the pairings screen: selectPairing(p)
selectPairing(gateway_token) ==
  /\ client.screen = "pairings"
  /\ Connects => \E h \in Handles : client.handles[h].readyState = "NONE"
  /\ client' = connectWebSocket(
                 [client EXCEPT !.selectedPairing = gateway_token, !.screen = "chat",
                                !.last = Last("selectPairing", 0)],
                 gateway_token, client.screen, client.selectedPairing)
  /\ ServerIdle

\* ws.onopen
onopen(h) ==
  /\ client.handles[h].readyState = "CONNECTING"
  /\ client' = [client EXCEPT !.handles[h].readyState = "OPEN", !.isConnected = TRUE,
                              !.last = Last("open", h)]
  /\ ServerIdle

\* ws.onmessage with { type: .. } from the broker
onmessage(h, type) ==
  /\ client.handles[h].readyState = "OPEN"
  /\ client' = [client EXCEPT
                  !.gatewayConnected = IF type = "gateway_connected" THEN TRUE
                                       ELSE IF type = "gateway_disconnected" THEN FALSE
                                       ELSE @,
                  !.last = Last("message", h)]
  /\ ServerIdle

\* ws.onclose: the flags are reset and the reconnect timer is started.
onclose(h) ==
  /\ client.handles[h].readyState \in {"CONNECTING", "OPEN", "CLOSING"}
  /\ client' = [client EXCEPT !.handles[h].readyState = "CLOSED",
                              !.handles[h].timer = "pending",
                              !.isConnected = FALSE, !.gatewayConnected = FALSE,
                              !.last = Last("close", h)]
  /\ ServerIdle

\* The callback of setTimeout(.., 5000) of ws.onclose.
timeout(h) ==
  LET handle == client.handles[h]
      fired == [client EXCEPT !.handles[h].timer = "fired", !.last = Last("timeout", h)]
  IN
  /\ handle.timer = "pending"
  /\ IF handle.selectedPairing # Missing /\ handle.screen = "chat"
     THEN /\ Connects => \E g \in Handles : client.handles[g].readyState = "NONE"
          /\ client' = connectWebSocket(fired, handle.gatewayToken,
                                        handle.screen, handle.selectedPairing)
     ELSE client' = fired
  /\ ServerIdle

\* onClick of the back button of the chat screen
back ==
  /\ client.screen = "chat"
  /\ client' = [Closed(client) EXCEPT !.selectedPairing = Missing, !.isConnected = FALSE,
                                      !.gatewayConnected = FALSE, !.screen = "pairings",
                                      !.last = Last("back", 0)]
  /\ ServerIdle

\* logout, after its fetch
logout ==
  /\ client.screen \in {"pairings", "chat"}
  /\ client' = [Closed(client) EXCEPT !.selectedPairing = Missing, !.screen = "login",
                                      !.last = Last("logout", 0)]
  /\ ServerIdle

InitClient ==
  /\ now = 1
  /\ sessions = {[token |-> "sess_1", user_id |-> "u1", expires_at |-> 2]}
  /\ pairings = {[gateway_token |-> "T1", user_id |-> "u1"],
                 [gateway_token |-> "T2", user_id |-> "u1"]}
  /\ liveConnections = << >>
  /\ sockets = [s \in Sockets |-> NoSocket]
  /\ ev = NoEvent
  /\ sent = << >>
  /\ OthersIdle

NextClient ==
  \/ signedIn
  \/ \E gateway_token \in PairingTokens : selectPairing(gateway_token)
  \/ \E h \in Handles : onopen(h)
  \/ \E h \in Handles, type \in {"connected", "gateway_connected", "gateway_disconnected"} :
       onmessage(h, type)
  \/ \E h \in Handles : onclose(h)
  \/ \E h \in Handles : timeout(h)
  \/ back
  \/ logout

SpecClient == InitClient /\ [][NextClient]_vars

\* The sockets of the app that are not closed.
NotClosed(c) ==
  {h \in Handles : c.handles[h].readyState \in {"CONNECTING", "OPEN", "CLOSING"}}

\* The reconnect timer of socket h fires in this step.
TimerFires(h) ==
  client.handles[h].timer = "pending" /\ client'.handles[h].timer = "fired"

\* C35 (as claimed): when the reconnect timer of the app's current socket fires
\* while a pairing is selected and the chat screen is showing, a new connection
\* is opened for the same gateway token; when the chat screen is not showing or
\* no pairing is selected, the timer opens no connection.
C35_ReconnectsOnChatScreen ==
  [][\A h \in Handles :
       TimerFires(h) =>
         /\ ( /\ client.selectedPairing # Missing
              /\ client.screen = "chat"
              /\ client.wsRef = h ) =>
                /\ client'.wsRef # h
                /\ client'.handles[client'.wsRef].readyState = "CONNECTING"
                /\ client'.handles[client'.wsRef].gatewayToken = client.handles[h].gatewayToken
         /\ (client.selectedPairing = Missing \/ client.screen # "chat") =>
                /\ client'.wsRef = client.wsRef
                /\ NotClosed(client') = NotClosed(client)]_vars

\* C36 (as claimed): the app never has two sockets that are not closed, and a
\* close or message event of a socket that is no longer wsRef.current leaves
\* isConnected and gatewayConnected as they are.
C36_FlagsFollowCurrentSocket ==
  [][/\ Cardinality(NotClosed(client')) <= 1
     /\ \A h \in Handles :
          ( /\ client' # client
            /\ client'.last \in {Last("close", h), Last("message", h)}
            /\ client.wsRef # h ) =>
              /\ client'.isConnected = client.isConnected
              /\ client'.gatewayConnected = client.gatewayConnected]_vars

====
